---- MODULE Spec2Model ----
(***************************************************************************)
(* A model of ssl-pinning: the pin stores (memory, Redis, PostgreSQL,      *)
(* filesystem), the API handler that serves /api/v1/{file}, the health     *)
(* probes, the error counters of the metrics collector, the pin registry   *)
(* with its probe workers, and the application lifecycle.                  *)
(*                                                                         *)
(* Strings are sequences of one-character strings, so that the composite   *)
(* Redis key "file:fqdn:appID", its glob pattern and the decimal text of   *)
(* an integer are built and taken apart the way the code does it.          *)
(* A *time.Time is <<>> (nil) or <<t>> (a pointer to the instant t).       *)
(***************************************************************************)
EXTENDS Integers, Sequences, FiniteSets, TLC

VARIABLES
    \* ---- pin stores and the API handler
    backend,    \* storage.type of this process
    memKeys,    \* memory.Storage.keys: fqdn -> DomainKey
    kv,         \* the Redis keyspace: hash name -> hash fields
    pg,         \* the rows of table domain_keys
    saves,      \* number of SaveKeys calls so far
    http,       \* the last request served by handleFileJSON and its response
    dump,       \* DumpDir as SaveKeys leaves it: file name -> content and mtime
    call,       \* the SaveKeys call that has just returned
    probe,      \* the health probe that has just been answered
    \* ---- filesystem store, step by step
    dir,        \* DumpDir: file name -> inode
    inodes,     \* inode -> bytes written so far
    writers,    \* saveFile calls in progress
    readers,    \* os.ReadFile calls in progress
    fsWrites,   \* number of saveFile calls started so far
    scans,      \* health probes reading DumpDir, each with its position
    \* ---- pin registry (package keys)
    store,      \* Keys.store: fqdn -> DomainKey
    muWriter,   \* holders of Keys.mu's write lock
    muReaders,  \* holders of Keys.mu's read lock
    workers,    \* Keys.workers: the fqdns with a registered worker
    wk,         \* per worker goroutine: position and local val
    setters,    \* goroutines calling Keys.Set directly
    snap,       \* goroutines calling Keys.Snapshot
    committed,  \* every record a Set has completely stored, per fqdn
    ops,        \* registry operations and worker goroutines started so far
    \* ---- application lifecycle
    mainPc,     \* position of the main goroutine in App.Up / App.Down
    srv,        \* the two HTTP servers
    ctxDone,    \* whether the engine's context is cancelled
    closeCalls, \* number of PinStore.Close() calls
    exitCode,   \* process exit code, -1 while running
    activity,   \* probes and flushes started, by phase
    clock,      \* seconds elapsed since the shutdown signal
    \* ---- memory store, SaveKeys against a concurrent reader
    memSave,    \* the SaveKeys call whose stores are reaching the readers
    memRead,    \* the GetByFile calls made, with the map each has observed
    \* ---- metrics collector
    errors,     \* Collector.errors: file -> count
    incs,       \* per probe worker: its IncError call in progress
    scrapes,    \* the Collect calls, each with its position
    tally,      \* IncError calls started and completed, values emitted
    \* ---- the engine in time: tickers, workers, flush
    eng,        \* time, tickers and contexts of the workers and of the flush
    expires,    \* Collector.expires: <<key, fqdn>> -> seconds until expiry
    tick        \* the worker tick that has just ended

storeVars == <<backend, memKeys, kv, pg, saves, http, dump, call, probe>>
fsVars    == <<dir, inodes, writers, readers, fsWrites, scans>>
keysVars  == <<store, muWriter, muReaders, workers, wk, setters, snap, committed, ops>>
appVars   == <<mainPc, srv, ctxDone, closeCalls, exitCode, activity, clock>>
raceVars  == <<memSave, memRead>>
metricVars == <<errors, incs, scrapes, tally>>
engineVars == <<eng, expires, tick>>
vars      == <<storeVars, fsVars, keysVars, appVars, raceVars, metricVars, engineVars>>

----------------------------------------------------------------------------
(* Strings *)

Digits == <<"0", "1", "2", "3", "4", "5", "6", "7", "8", "9">>

DigitOf(c) == CHOOSE d \in 0..9 : Digits[d + 1] = c

IsDigit(c) == \E d \in 0..9 : Digits[d + 1] = c

RECURSIVE FormatNat(_)
FormatNat(n) ==
    IF n < 10 THEN <<Digits[n + 1]>>
    ELSE FormatNat(n \div 10) \o <<Digits[(n % 10) + 1]>>

\* strconv.FormatInt(n, 10), as go-redis writes an int64 argument
FormatInt(n) == IF n < 0 THEN <<"-">> \o FormatNat(-n) ELSE FormatNat(n)

RECURSIVE ParseNat(_, _)
ParseNat(s, acc) ==
    IF s = <<>> THEN acc ELSE ParseNat(Tail(s), acc * 10 + DigitOf(Head(s)))

\* strconv.ParseInt(s, 10, 64) with the error dropped: 0 on a syntax error
ParseInt(s) ==
    LET body == IF s # <<>> /\ Head(s) \in {"-", "+"} THEN Tail(s) ELSE s
    IN  IF body = <<>> \/ \E i \in 1..Len(body) : ~IsDigit(body[i]) THEN 0
        ELSE IF s # <<>> /\ Head(s) = "-" THEN -ParseNat(body, 0)
        ELSE ParseNat(body, 0)

\* the zero time.Time that time.Parse returns with an error
ZeroTime == 0

\* (*time.Time).Format(time.RFC3339Nano) as go-redis writes a time argument
FormatTime(d) == IF d = <<>> THEN <<>> ELSE <<"T">> \o FormatNat(d[1])

\* time.Parse(time.RFC3339Nano, s) with the error dropped
ParseTime(s) ==
    IF s # <<>> /\ Head(s) = "T" /\ Tail(s) # <<>>
       /\ \A i \in 1..Len(Tail(s)) : IsDigit(Tail(s)[i])
    THEN ParseNat(Tail(s), 0)
    ELSE ZeroTime

\* The characters used, in ASCII order (for ORDER BY fqdn, for the order of
\* the member names of a canonical JSON object and for the ranges of a glob
\* character class)
Alphabet == <<"*", "+", "-", ".", "0", "1", "2", "3", "4", "5", "6", "7", "8", "9",
              ":", "?", "K", "N", "T", "[", "\\", "]", "^", "_", "a", "b", "d", "e",
              "f", "g", "i", "j", "k", "l", "m", "n", "o", "p", "q", "r", "s", "t",
              "x", "y">>

Code(c) == CHOOSE i \in 1..Len(Alphabet) : Alphabet[i] = c

\* Redis glob matching, the members of a character class: p is the pattern
\* after '[' and an optional '^', c the character of the string. The result
\* is whether a member matched and the pattern from the closing ']' on (the
\* matcher then steps over one character; a class that is not closed ends
\* at the last character of the pattern)
RECURSIVE GlobClass(_, _, _)
GlobClass(p, c, hit) ==
    IF p = <<>> THEN [match |-> hit, rest |-> <<>>]
    ELSE IF Head(p) = "\\" /\ Len(p) >= 2 THEN
        IF Len(p) = 2 THEN [match |-> hit \/ p[2] = c, rest |-> <<>>]
        ELSE GlobClass(SubSeq(p, 3, Len(p)), c, hit \/ p[2] = c)
    ELSE IF Head(p) = "]" THEN [match |-> hit, rest |-> p]
    ELSE IF Len(p) >= 3 /\ p[2] = "-" THEN
        LET lo == IF Code(p[1]) <= Code(p[3]) THEN Code(p[1]) ELSE Code(p[3])
            hi == IF Code(p[1]) <= Code(p[3]) THEN Code(p[3]) ELSE Code(p[1])
            in == lo <= Code(c) /\ Code(c) <= hi
        IN  IF Len(p) = 3 THEN [match |-> hit \/ in, rest |-> <<>>]
            ELSE GlobClass(SubSeq(p, 4, Len(p)), c, hit \/ in)
    ELSE IF Len(p) = 1 THEN [match |-> hit \/ Head(p) = c, rest |-> <<>>]
    ELSE GlobClass(Tail(p), c, hit \/ Head(p) = c)

\* Redis glob matching (KEYS pattern): '*' any run, '?' any one character,
\* '[...]' one character of a class ('^' negates it, 'a-z' is a range), '\'
\* escapes the next character, anything else matches itself
RECURSIVE GlobMatch(_, _)
GlobMatch(p, s) ==
    IF p = <<>> THEN s = <<>>
    ELSE IF Head(p) = "*" THEN
        \E i \in 0..Len(s) : GlobMatch(Tail(p), SubSeq(s, i + 1, Len(s)))
    ELSE IF s = <<>> THEN FALSE
    ELSE IF Head(p) = "?" THEN GlobMatch(Tail(p), Tail(s))
    ELSE IF Head(p) = "[" THEN
        LET not == Len(p) >= 2 /\ p[2] = "^"
            cls == GlobClass(SubSeq(p, IF not THEN 3 ELSE 2, Len(p)), Head(s), FALSE)
        IN  /\ cls.match # not
            /\ GlobMatch(IF cls.rest = <<>> THEN <<>> ELSE Tail(cls.rest), Tail(s))
    ELSE IF Head(p) = "\\" /\ Len(p) > 1 THEN
        Head(s) = p[2] /\ GlobMatch(Tail(Tail(p)), Tail(s))
    ELSE Head(p) = Head(s) /\ GlobMatch(Tail(p), Tail(s))

----------------------------------------------------------------------------
(* types.DomainKey and the inputs *)

Fqdns  == {<<"a">>, <<"b">>}
Files  == {<<"f">>, <<"g">>}
AppIDs == {<<"1">>, <<"2">>}
PinK   == <<"K">>

\* cfg.UUID of this process
EngineAppID == <<"1">>

\* number of SaveKeys calls explored
MaxSaves == 2

DomainKey(app, date, dn, expire, file, fqdn, key, lastError) ==
    [AppID |-> app, Date |-> date, DomainName |-> dn, Expire |-> expire,
     File |-> file, Fqdn |-> fqdn, Key |-> key, LastError |-> lastError]

ZeroKey == DomainKey(<<>>, <<>>, <<>>, 0, <<>>, <<>>, <<>>, <<>>)

\* config.New: domain_name defaults to "*.{fqdn}"
DefaultDomainName(fqdn) == <<"*", ".">> \o fqdn

\* config.New: file defaults to "{fqdn}.json"
DefaultFile(fqdn) == fqdn \o <<".", "j", "s", "o", "n">>

\* The records a registry can hold for a target (fqdn, file): configured by
\* fqdn only and not probed yet (NewKeys stores the record as given: Key "",
\* Date nil, LastError ""), configured with a key and not probed yet, probed
\* with a failure only, probed successfully at instant 1 (the certificate
\* then expiring in 2 seconds) or at instant 2 (in 1 second), and probed
\* successfully at instant 1 and with a failure at instant 2, which leaves
\* Key and Expire and sets LastError
TargetRecords(fqdn, file) ==
    LET base == [ZeroKey EXCEPT !.Fqdn = fqdn, !.File = file,
                                !.DomainName = DefaultDomainName(fqdn)]
    IN  { base,
          [base EXCEPT !.Key = PinK],
          [base EXCEPT !.Date = <<1>>, !.LastError = <<"e">>],
          [base EXCEPT !.Date = <<2>>, !.Key = PinK, !.Expire = 1],
          [base EXCEPT !.Date = <<1>>, !.Key = PinK, !.Expire = 2],
          [base EXCEPT !.Date = <<2>>, !.Key = PinK, !.Expire = 2,
                       !.LastError = <<"e">>] }

\* the records of the registries explored: both targets are configured in
\* file f, target a with every record above and target b with those of a
\* probe that succeeded; target a is also configured in file g, where its
\* probes succeed
TargetsOf(fqdn) ==
    IF fqdn = <<"a">>
    THEN TargetRecords(fqdn, <<"f">>)
         \cup { k \in TargetRecords(fqdn, <<"g">>) :
                  k.LastError = <<>> /\ k.Expire = 1 }
    ELSE { k \in TargetRecords(fqdn, <<"f">>) : k.LastError = <<>> /\ k.Date # <<>> }

\* The maps SaveKeys can be given: a registry snapshot, fqdn -> record
Batches ==
    UNION { { b \in [D -> UNION { TargetsOf(q) : q \in D }] :
                \A q \in D : b[q].Fqdn = q } : D \in SUBSET Fqdns }

\* The maps a process with app id appID gives SaveKeys on a store that
\* processes share: this process is configured with every target, its peer
\* with target a in file f
BatchesOf(appID) ==
    IF appID = EngineAppID THEN Batches
    ELSE { b \in Batches : \A q \in DOMAIN b : q = <<"a">> /\ b[q].File = <<"f">> }

\* Every ordering of a finite set as a sequence (Go's random map iteration,
\* the order of a KEYS reply, the order of rows with equal sort keys)
Orderings(S) ==
    { o \in [1..Cardinality(S) -> S] : \A i, j \in 1..Cardinality(S) : i # j => o[i] # o[j] }


RECURSIVE StrLess(_, _)
StrLess(a, b) ==
    IF b = <<>> THEN FALSE
    ELSE IF a = <<>> THEN TRUE
    ELSE IF Head(a) = Head(b) THEN StrLess(Tail(a), Tail(b))
    ELSE Code(Head(a)) < Code(Head(b))

Range(f) == { f[x] : x \in DOMAIN f }

----------------------------------------------------------------------------
(* memory.Storage *)

\* a map with a record that has an empty Key is refused as a whole
MemRefuseBatch(keys) ==
    IF \E k \in Range(keys) : k.Key = <<>> THEN <<>>
    ELSE [q \in { k.Fqdn : k \in Range(keys) } |->
            CHOOSE k \in Range(keys) : k.Fqdn = q]

\* SaveKeys: a fresh map holding the records with a non-empty Key, indexed
\* by their Fqdn, replaces s.keys
MemSaveKeys(keys) ==
    LET kept == { k \in Range(keys) : k.Key # <<>> }
    IN  [q \in { k.Fqdn : k \in kept } |-> CHOOSE k \in kept : k.Fqdn = q]

\* GetByFile: the records of s.keys with a non-empty Key and this File,
\* returned with File cleared
MemGetByFile(file) ==
    { [k EXCEPT !.File = <<>>] :
        k \in { r \in Range(memKeys) : r.Key # <<>> /\ r.File = file } }

----------------------------------------------------------------------------
(* redis.Storage *)

\* fmt.Sprintf("%s:%s:%s", key.File, key.Fqdn, s.appID)
RedisHashName(key, appID) == key.File \o <<":">> \o key.Fqdn \o <<":">> \o appID

\* the fields HSet writes, each as Redis stores it: text
RedisFields(key) ==
    [date |-> FormatTime(key.Date), domainName |-> key.DomainName,
     expire |-> FormatInt(key.Expire), file |-> key.File, fqdn |-> key.Fqdn,
     key |-> key.Key, last_error |-> key.LastError]

\* SaveKeys: one HSet per record with a non-empty Key; a record whose HSet
\* fails (those in failed) is reported and the loop goes on
RedisSaveKeys(space, keys, appID, failed) ==
    LET done == { k \in Range(keys) : k.Key # <<>> /\ k.Fqdn \notin failed }
        names == { RedisHashName(k, appID) : k \in done }
    IN  [n \in DOMAIN space \cup names |->
            IF n \in names
            THEN RedisFields(CHOOSE k \in done : RedisHashName(k, appID) = n)
            ELSE space[n]]

\* fmt.Sprintf("%s:*", file)
RedisPattern(file) == file \o <<":", "*">>

\* KEYS pattern
RedisKeys(file) == { n \in DOMAIN kv : GlobMatch(RedisPattern(file), n) }

\* the record GetByFile builds from a hash
RedisRecord(data) ==
    DomainKey(<<>>, <<ParseTime(data.date)>>, data.domainName,
              ParseInt(data.expire), <<>>, data.fqdn, data.key, data.last_error)

\* whether record k replaces the record kept so far for its fqdn
RedisBetter(k, prev) == k.Expire < prev.Expire

RECURSIVE RedisBest(_, _)
RedisBest(cmds, best) ==
    IF cmds = <<>> THEN best
    ELSE LET data == Head(cmds)
             k == RedisRecord(data)
         IN  IF data.key = <<>> THEN RedisBest(Tail(cmds), best)
             ELSE IF data.fqdn \notin DOMAIN best \/ RedisBetter(k, best[data.fqdn])
             THEN RedisBest(Tail(cmds), (data.fqdn :> k) @@ best)
             ELSE RedisBest(Tail(cmds), best)

\* GetByFile, given the order in which KEYS listed the hashes: the records
\* kept, one per fqdn
RedisGetByFile(list) ==
    Range(RedisBest([i \in 1..Len(list) |-> kv[list[i]]], <<>>))

----------------------------------------------------------------------------
(* postgres.Storage *)

\* the unique index (app_id, file, fqdn)
PgConflict(r, k) == r.AppID = k.AppID /\ r.File = k.File /\ r.Fqdn = k.Fqdn

\* INSERT ... ON CONFLICT (app_id, file, fqdn) DO UPDATE, for every record
\* of the map, in one transaction
PgUpsertAll(rows, keys, appID) ==
    LET new == { [k EXCEPT !.AppID = appID] : k \in Range(keys) }
    IN  { r \in rows : \A k \in new : ~PgConflict(r, k) } \cup new

\* how a SaveKeys call can go: exec is the set of fqdns whose Exec succeeded
\* (the loop returns at the first that fails), commit is whether tx.Commit,
\* reached when every Exec succeeded, succeeds
PgOutcomes(keys) ==
    { [exec |-> e, commit |-> c] :
        e \in SUBSET DOMAIN keys, c \in BOOLEAN } \
    { [exec |-> e, commit |-> TRUE] : e \in (SUBSET DOMAIN keys) \ {DOMAIN keys} }

\* whether the transaction was committed
PgCommitted(keys, exec, commit) == exec = DOMAIN keys /\ commit

\* every statement takes effect at once, whatever becomes of the transaction
PgAutoCommit(rows, work, commit) == work

\* the table after the transaction ends: its work when committed, the rows
\* as they were before BEGIN after tx.Rollback() or a failed tx.Commit()
PgEnd(rows, work, commit) == IF commit THEN work ELSE rows

\* SaveKeys: BEGIN, one Exec per record, COMMIT
PgSaveKeys(rows, keys, appID, exec, commit) ==
    PgEnd(rows, PgUpsertAll(rows, [q \in exec |-> keys[q]], appID),
          PgCommitted(keys, exec, commit))

\* WHERE file = $1 AND key <> ''
PgWhere(r, file) == r.File = file /\ r.Key # <<>>

\* ORDER BY fqdn, expire ASC: whether row r may come first among the rows
\* of its fqdn
PgFirst(r, rows) == \A o \in rows : o.Fqdn = r.Fqdn => r.Expire <= o.Expire

\* rows.Scan into a DomainKey: date, domain_name, expire, fqdn, key, last_error
PgScan(r) == [r EXCEPT !.AppID = <<>>, !.File = <<>>]

\* the rows of file, whatever their key, none left out
PgRowsOfFile(file) == { { PgScan(r) : r \in { x \in pg : x.File = file } } }

\* SELECT DISTINCT ON (fqdn) ...: every result set the query can return, one
\* row per fqdn (rows that tie on expire may come in either order); the loop
\* over the rows skips a scanned record whose Key is empty
PgGetByFile(file) ==
    LET sel == { r \in pg : PgWhere(r, file) }
        qs  == { r.Fqdn : r \in sel }
    IN  { { k \in { PgScan(pick[q]) : q \in qs } : k.Key # <<>> } :
            pick \in { p \in [qs -> sel] : \A q \in qs : p[q].Fqdn = q /\ PgFirst(p[q], sel) } }

\* the rows of a result in the order the query returns them: by fqdn
ByFqdn(S) == { o \in Orderings(S) : \A i, j \in 1..Len(o) : i < j => ~StrLess(o[j].Fqdn, o[i].Fqdn) }


----------------------------------------------------------------------------
(* types.SignedKeys and the API handler *)

\* sort.Slice by Expire: for up to 12 elements Go sorts by insertion, which
\* keeps the input order of records with equal Expire
RECURSIVE InsertByExpire(_, _)
InsertByExpire(sorted, k) ==
    IF sorted = <<>> THEN <<k>>
    ELSE IF k.Expire < sorted[Len(sorted)].Expire
    THEN Append(InsertByExpire(SubSeq(sorted, 1, Len(sorted) - 1), k), sorted[Len(sorted)])
    ELSE Append(sorted, k)

\* the records in the order they were given
KeepOrder(keys) == keys

RECURSIVE SortByExpire(_)
SortByExpire(keys) ==
    IF keys = <<>> THEN <<>>
    ELSE InsertByExpire(SortByExpire(SubSeq(keys, 1, Len(keys) - 1)), keys[Len(keys)])

\* A JSON object is the sequence of its members <<name, value text>> in the
\* order they are written; a JSON text is an object with the layout it was
\* written in: "indent0" (MarshalIndent at the top level), "indent1" (the
\* same object nested one level down) or "none" (no insignificant whitespace)

\* the member of a struct field tagged omitempty: left out when empty
Member(name, text, empty) == IF empty THEN <<>> ELSE << <<name, text>> >>

\* json.Marshal of a DomainKey: the fields in declaration order
KeyJSON(k) ==
    Member(<<"a", "p", "p", "_", "i", "d">>, k.AppID, k.AppID = <<>>)
    \o Member(<<"d", "a", "t", "e">>, FormatTime(k.Date), k.Date = <<>>)
    \o Member(<<"d", "o", "m", "a", "i", "n", "N", "a", "m", "e">>, k.DomainName,
              k.DomainName = <<>>)
    \o Member(<<"e", "x", "p", "i", "r", "e">>, FormatInt(k.Expire), k.Expire = 0)
    \o Member(<<"f", "i", "l", "e">>, k.File, k.File = <<>>)
    \o Member(<<"f", "q", "d", "n">>, k.Fqdn, k.Fqdn = <<>>)
    \o Member(<<"k", "e", "y">>, k.Key, k.Key = <<>>)
    \o Member(<<"l", "a", "s", "t", "_", "e", "r", "r", "o", "r">>, k.LastError,
              k.LastError = <<>>)

\* json.MarshalIndent(FileKeys{Keys: keys}, "", "  ") written at depth layout
MarshalIndent(keys, layout) ==
    [keys |-> [i \in 1..Len(keys) |-> KeyJSON(keys[i])], layout |-> layout]

\* the members of an object sorted by name
RECURSIVE SortMembers(_)
SortMembers(obj) ==
    IF obj = <<>> THEN <<>>
    ELSE LET least == CHOOSE i \in 1..Len(obj) :
                         \A j \in 1..Len(obj) : ~StrLess(obj[j][1], obj[i][1])
         IN  <<obj[least]>>
             \o SortMembers([j \in 1..(Len(obj) - 1) |->
                               IF j < least THEN obj[j] ELSE obj[j + 1]])

\* the sorted form of the objects that the records of the configured
\* targets are written as, worked out once
SortedMembers ==
    [obj \in { KeyJSON([k EXCEPT !.File = <<>>]) :
                 k \in UNION { TargetsOf(q) : q \in Fqdns } } |-> SortMembers(obj)]

\* the bytes as they are, nothing normalised
RawBytes(data) == data

\* jsoncanonicalizer.Transform: member names sorted, whitespace removed
Canonicalize(data) ==
    [keys |-> [i \in 1..Len(data.keys) |->
                 IF data.keys[i] \in DOMAIN SortedMembers
                 THEN SortedMembers[data.keys[i]]
                 ELSE SortMembers(data.keys[i])],
     layout |-> "none"]

\* Signer.Sign(data): the RSA PKCS1v15 signature of the SHA-512 hash of the
\* canonical form, which that form determines
Sign(data) == <<Canonicalize(data)>>

NoBody ==
    [kind |-> "none", text |-> <<>>, keys |-> <<>>, payload |-> <<>>, signature |-> <<>>]

TextBody(t) == [NoBody EXCEPT !.kind = "text", !.text = t]

\* json.MarshalIndent(FileStructure{Payload: FileKeys{Keys: keys}, Signature:
\* sig}, "", "  "): the payload is written one level down; sig is the
\* signature of the payload marshalled on its own
Manifest(keys) ==
    [kind |-> "manifest", text |-> <<>>, keys |-> keys,
     payload |-> <<MarshalIndent(keys, "indent1")>>,
     signature |-> Sign(MarshalIndent(keys, "indent0"))]

\* SignedKeys: nil for no keys, else the signed manifest of the sorted keys
SignedKeys(file, keys) ==
    IF Len(keys) < 1 THEN <<>> ELSE <<Manifest(SortByExpire(keys))>>

----------------------------------------------------------------------------
(* filesystem.Storage: SaveKeys and GetByFile, one call at a time *)

\* the instant at which SaveKeys writes a manifest: the instants of the
\* readiness handler make it new or old
SaveTimes == {2}

\* number of SaveKeys calls of the filesystem store explored: each is
\* followed system call by system call
MaxDumps == 1

\* SaveKeys, first loop: the files of the records with a non-empty Key
FsFiles(keys) == { k.File : k \in { r \in Range(keys) : r.Key # <<>> } }

\* SaveKeys, first loop: files[file], the records of file that have a
\* non-empty Key, File cleared
FsGroup(keys, file) ==
    { [k EXCEPT !.File = <<>>] :
        k \in { r \in Range(keys) : r.Key # <<>> /\ r.File = file } }

\* the destination's own name: a file written where it is read
InPlaceName(file, n) == file

\* os.CreateTemp(s.dumpDir, fmt.Sprintf(".%s.tmp-*", file)): the name
\* created, the * replaced by a number no other file has
TempName(file, n) == <<".">> \o file \o <<".", "t", "m", "p", "-">> \o FormatNat(n)

\* fmt.Sprintf("%s/%s", s.dumpDir, file), relative to DumpDir
DestName(file) == file

\* a directory left as it is
KeepEntry(d, name) == d

\* os.Remove(name): the name is gone from the directory; of a name that is
\* not there it changes nothing (the error is dropped)
Remove(d, name) == [n \in DOMAIN d \ {name} |-> d[n]]

\* the bytes of a file nothing was written to
NoData == NoBody

\* os.CreateTemp: an empty file of that name, created at instant now
CreateTemp(d, name, now) ==
    [n \in DOMAIN d \cup {name} |->
        IF n = name THEN [body |-> NoData, mtime |-> now] ELSE d[n]]

\* (*os.File).Write(data) to the file of that name at instant now
WriteFile(d, name, data, now) ==
    [d EXCEPT ![name] = [body |-> data, mtime |-> now]]

\* os.Rename(old, new): the name new refers to the file of old, content and
\* modification time, and the name old is gone
Rename(d, old, new) ==
    [n \in (DOMAIN d \ {old}) \cup {new} |-> IF n = new THEN d[old] ELSE d[n]]

\* whether json.Unmarshal(raw, &data) succeeds: the empty input and a
\* manifest written in part do not parse
Parses(body) == body.kind = "manifest"

\* GetByFile: os.ReadFile of DumpDir/file gives the bytes, or fails (<<>>)
FsGetByFile(file) ==
    { <<>> } \cup (IF file \in DOMAIN dump THEN { <<dump[file].body>> } ELSE {})

\* the value text of member name of a JSON object, <<>> when it has none
Field(obj, name) ==
    IF \E i \in 1..Len(obj) : obj[i][1] = name
    THEN obj[CHOOSE i \in 1..Len(obj) : obj[i][1] = name][2]
    ELSE <<>>

\* json.Unmarshal of one object of payload.keys into a DomainKey
UnmarshalKey(obj) ==
    DomainKey(Field(obj, <<"a", "p", "p", "_", "i", "d">>),
              IF Field(obj, <<"d", "a", "t", "e">>) = <<>> THEN <<>>
              ELSE <<ParseTime(Field(obj, <<"d", "a", "t", "e">>))>>,
              Field(obj, <<"d", "o", "m", "a", "i", "n", "N", "a", "m", "e">>),
              ParseInt(Field(obj, <<"e", "x", "p", "i", "r", "e">>)),
              Field(obj, <<"f", "i", "l", "e">>),
              Field(obj, <<"f", "q", "d", "n">>),
              Field(obj, <<"k", "e", "y">>),
              Field(obj, <<"l", "a", "s", "t", "_", "e", "r", "r", "o", "r">>))

\* json.Unmarshal(raw, &data): data.Payload.Keys
UnmarshalKeys(body) ==
    [i \in 1..Len(body.payload[1].keys) |-> UnmarshalKey(body.payload[1].keys[i])]

----------------------------------------------------------------------------
(* The API handler *)

\* what GetByFile returned: the records in the order handed out, the raw
\* bytes (<<>> is nil), whether it returned an error, and the error's text
Got(keys, data, err) == [keys |-> keys, data |-> data, err |-> err, msg |-> <<>>]

\* GetByFile returns nil, nil, fmt.Errorf(msg)
Failed(msg) == [keys |-> <<>>, data |-> <<>>, err |-> TRUE, msg |-> msg]

\* the text "file {file} not found"
FileNotFound(file) ==
    <<"f", "i", "l", "e", " ">> \o file \o
    <<" ", "n", "o", "t", " ", "f", "o", "u", "n", "d">>

\* the texts of the errors GetByFile returns on the configured backend, each
\* a fixed text: the error of the driver is logged and not handed on. The
\* memory store returns no error
ErrorText(file) ==
    CASE backend = "memory" -> {}
      [] backend = "redis" ->
            { <<"failed to get keys from redis">>, <<"failed to execute pipeline">> }
      [] backend = "postgres" ->
            { <<"failed to query keys from postgres">>, <<"failed to scan row">>,
              <<"failed to read rows">> }
      [] backend = "filesystem" -> { FileNotFound(file) }

\* Redis GetByFile once KEYS has listed the hashes names, in any order, and
\* the pipeline of HGETALL has answered: the records of the map best, in
\* any order
RedisResults(names) ==
    UNION { { Got(o, <<>>, FALSE) : o \in Orderings(RedisGetByFile(list)) } :
              list \in Orderings(names) }

\* what GetByFile can return for file on the configured backend when nothing
\* is written while it runs
GetByFileResults(file) ==
    { Failed(msg) : msg \in ErrorText(file) } \cup
    CASE backend = "memory" ->
            { Got(o, <<>>, FALSE) : o \in Orderings(MemGetByFile(file)) }
      [] backend = "redis" -> RedisResults(RedisKeys(file))
      [] backend = "postgres" ->
            UNION { { Got(o, <<>>, FALSE) : o \in ByFqdn(S) } : S \in PgGetByFile(file) }
      [] backend = "filesystem" ->
            { Got(<<>>, data, FALSE) : data \in FsGetByFile(file) \ { <<>> } }

Response(file, got, status, ctype, body) ==
    [file |-> file, keys |-> got.keys, data |-> got.data, err |-> got.err,
     status |-> status, ctype |-> ctype, body |-> body, list |-> {}]

NoRequest == Response(<<>>, Got(<<>>, <<>>, FALSE), 0, "", NoBody)

\* a request for file on the Redis store between its two round trips: KEYS
\* has listed the hashes names
Waiting(file, names) == [NoRequest EXCEPT !.file = file, !.list = names]

\* http.Error(w, msg, code): the body is msg and a line feed (fmt.Fprintln)
HttpError(file, got, msg, code) ==
    Response(file, got, code, "text/plain; charset=utf-8", TextBody(msg \o <<"\n">>))

\* the keys the handler signs: SignedKeys is called for more than one record
NeedsSigning(keys) == Len(keys) > 1

\* an answer of 200 with an empty body
EmptyOk(file, got) == Response(file, got, 200, "application/json", NoBody)

\* the end of handleFileJSON, reached when data is nil
NotFound(file, got) == HttpError(file, got, FileNotFound(file), 404)

\* handleFileJSON for path value file, GetByFile having returned got
HandleFile(file, got, signOk) ==
    IF file = <<>> THEN
        HttpError(file, Got(<<>>, <<>>, FALSE), <<"file required">>, 400)
    ELSE IF got.err THEN HttpError(file, got, got.msg, 500)
    ELSE IF NeedsSigning(got.keys) /\ ~signOk THEN
        HttpError(file, got, <<"sign error">>, 500)
    ELSE LET data == IF NeedsSigning(got.keys) THEN SignedKeys(file, got.keys)
                     ELSE got.data
         IN  IF data # <<>>
             THEN Response(file, got, 200, "application/json", data[1])
             ELSE NotFound(file, got)

----------------------------------------------------------------------------
(* The health probes *)

\* const maxAge = 10 * time.Second, in seconds
MaxAge == 10

\* the instants now := time.Now() of the liveness handlers explored: every
\* record is fresh at the first, those dated 1 are stale at the second
LivenessTimes == {3, 11}

\* the instants now := time.Now() of the readiness handler explored: every
\* file is new at the first, those saved at 2 are old at the second
ReadinessTimes == {3, 12}

\* the deferred function: 503 when errs is not empty, else 200
Verdict(errs, fresh) ==
    [errs |-> errs, fresh |-> fresh, status |-> IF errs # {} THEN 503 ELSE 200,
     counted |-> {}]

\* the error a liveness handler appends when it counted no fresh record
NoFreshKeys ==
    CASE backend = "memory" -> "no fresh keys found in memory"
      [] backend = "redis" -> "no fresh keys in redis"
      [] backend = "postgres" -> "no fresh keys found in postgres"
      [] backend = "filesystem" -> "no fresh keys found"

\* the end of every liveness handler. A check is <<outcome, subject, record>>:
\* the records found fresh are counted, the others have each appended their
\* error, and no fresh record is an error of its own
Tally(checks) ==
    LET fresh == { c \in checks : c[1] = "fresh" }
    IN  [Verdict({ <<c[1], c[2]>> : c \in checks \ fresh }
                 \cup (IF fresh = {} THEN { <<NoFreshKeys, <<>> >> } ELSE {}),
                 Cardinality(fresh))
            EXCEPT !.counted = { c[3] : c \in fresh }]

\* every record passes the checks
Unchecked(k, now) == "fresh"

\* memory ProbeLiveness, the body of the loop over s.keys
MemCheck(k, now) ==
    IF k.Key = <<>> THEN "empty key"
    ELSE IF k.Date = <<>> THEN "missing date"
    ELSE IF now - k.Date[1] >= MaxAge THEN "stale"
    ELSE "fresh"

\* memory ProbeLiveness after len(s.keys) was found positive: the loop over
\* s.keys, which is read again, and the end
MemLiveness(now) ==
    Tally({ <<MemCheck(memKeys[q], now), q, memKeys[q]>> : q \in DOMAIN memKeys })

\* whether time.Parse(time.RFC3339Nano, s) succeeds
TimeParses(s) ==
    s # <<>> /\ Head(s) = "T" /\ Tail(s) # <<>>
    /\ \A i \in 1..Len(Tail(s)) : IsDigit(Tail(s)[i])

\* Redis ProbeLiveness, the body of the loop over the hashes
RedisCheck(data, now) ==
    IF data.key = <<>> THEN "empty key"
    ELSE IF data.last_error # <<>> THEN "last_error"
    ELSE IF data.date = <<>> THEN "missing date"
    ELSE IF ~TimeParses(data.date) THEN "invalid date"
    ELSE IF now - ParseTime(data.date) >= MaxAge THEN "stale"
    ELSE "fresh"

\* fmt.Sprintf("*:*:%s", s.appID)
RedisAppPattern(appID) == <<"*", ":", "*", ":">> \o appID

\* Redis ProbeLiveness after KEYS has listed the hashes names: the pipeline
\* of HGETALL, which succeeds or not (ok), the loop over its replies and the
\* end
RedisLiveness(names, now, ok) ==
    IF ~ok THEN Verdict({ <<"redis pipeline error", <<>> >> }, 0)
    ELSE Tally({ <<RedisCheck(kv[n], now), n, RedisRecord(kv[n])>> : n \in names })

\* PostgreSQL ProbeLiveness: WHERE app_id = $1 AND key <> ''
PgLivenessRows(appID) == { r \in pg : r.AppID = appID /\ r.Key # <<>> }

\* PostgreSQL ProbeLiveness, the body of the loop over the rows
PgCheck(k, now) ==
    IF k.Key = <<>> THEN "empty key"
    ELSE IF k.LastError # <<>> THEN "last_error"
    ELSE IF k.Date = <<>> THEN "missing date"
    ELSE IF now - k.Date[1] >= MaxAge THEN "stale"
    ELSE "fresh"

\* PostgreSQL ProbeLiveness of the process with app id appID: one query; ok
\* is whether it succeeds
PgLiveness(appID, now, ok) ==
    IF ~ok THEN Verdict({ <<"failed to query postgres", <<>> >> }, 0)
    ELSE Tally({ <<PgCheck(r, now), <<r.File, r.Fqdn>>, r>> : r \in PgLivenessRows(appID) })

\* filesystem ProbeLiveness, the body of the loop over data.Payload.Keys
FsCheck(k, now) ==
    IF k.LastError # <<>> THEN "last_error"
    ELSE IF k.Date = <<>> THEN "missing date"
    ELSE IF now - k.Date[1] >= MaxAge THEN "stale"
    ELSE "fresh"

\* filesystem ProbeLiveness, the body of the loop over the entries up to the
\* loop over the records, for the manifest name: os.ReadFile, which succeeds
\* or not (ok), and json.Unmarshal; the result is the errors appended and the
\* records to check. (DumpDir holds no directory: nothing creates one.)
FsLiveness(name, ok) ==
    IF ~ok \/ name \notin DOMAIN dump THEN { <<"failed to read file", name, ZeroKey>> }
    ELSE IF ~Parses(dump[name].body)
    THEN { <<"failed to unmarshal file", name, ZeroKey>> }
    ELSE IF UnmarshalKeys(dump[name].body) = <<>>
    THEN { <<"no keys in file", name, ZeroKey>> }
    ELSE { <<"record", <<name, k.Fqdn>>, k>> :
             k \in Range(UnmarshalKeys(dump[name].body)) }

\* filesystem ProbeLiveness, the loop over the records read, and the end
FsTally(read, now) ==
    Tally({ IF c[1] = "record" THEN <<FsCheck(c[3], now), c[2], c[3]>> ELSE c :
              c \in read })

\* filesystem ProbeReadiness, the body of the loop over the entries for the
\* entry name: e.Info(), which succeeds or not (ok), and the modification
\* time it gives
FsReadiness(name, ok) ==
    IF ~ok \/ name \notin DOMAIN dump THEN { <<"failed to get file info", name, 0>> }
    ELSE { <<"info", name, dump[name].mtime>> }

\* filesystem ProbeReadiness, the errors: one for every entry whose Info
\* failed and one for every file that is maxAge old or older
FsVerdict(read, now) ==
    Verdict({ <<c[1], c[2]>> : c \in { r \in read : r[1] # "info" } }
            \cup { <<"no dump files newer", c[2]>> :
                     c \in { r \in read : r[1] = "info" /\ now - r[3] >= MaxAge } },
            0)

\* the first of the names S in the order of os.ReadDir, sorted by filename
FirstName(S) == CHOOSE n \in S : \A m \in S : m = n \/ StrLess(n, m)

\* a probe that was answered
Probe(kind, now, appID, ok, v) ==
    [kind |-> kind, now |-> now, appID |-> appID, ok |-> ok,
     errs |-> v.errs, fresh |-> v.fresh, status |-> v.status,
     counted |-> v.counted, pc |-> "done", list |-> {}, checks |-> {}]

NoProbe == Probe("none", 0, <<>>, TRUE, [Verdict({}, 0) EXCEPT !.status = 0])

\* a probe that has listed names (the hashes, the entries of DumpDir) or
\* found s.keys not empty, and has not yet read what it goes on to read; now
\* is the handler's now := time.Now() where a clock runs. Without a clock it
\* is an input that no read depends on, drawn where the handler first uses
\* it, in the checks after the last read
Pending(kind, appID, names, now) ==
    [NoProbe EXCEPT !.kind = kind, !.appID = appID, !.pc = "read", !.list = names,
                    !.now = now]

\* a request or a probe is between two of its reads
Reading == http.list # {} \/ probe.pc = "read"

----------------------------------------------------------------------------
(* The pin stores: actions *)

Backends == {"memory", "redis", "postgres", "filesystem"}

\* a SaveKeys call that has returned: the map it was given, the app id of
\* the calling process, whether the backend itself failed, and whether
\* SaveKeys returned an error
Call(keys, appID, failed, err) ==
    [kind |-> "save", keys |-> keys, appID |-> appID, failed |-> failed, err |-> err,
     todo |-> {}, pc |-> "", file |-> <<>>, tmp |-> <<>>]

NoCall == [kind |-> "none", keys |-> <<>>, appID |-> <<>>, failed |-> FALSE,
           err |-> FALSE, todo |-> {}, pc |-> "", file |-> <<>>, tmp |-> <<>>]

\* a SaveKeys call inside its loop: todo is what the loop has yet to visit
\* (the fqdns of the records of the Redis store, the files of the filesystem
\* store), failed whether a write has failed so far. On the filesystem
\* store pc is the system call saveFile comes to next, or "next" between two
\* files, file the file being saved and tmp the name os.CreateTemp gave
Saving(keys, appID, todo) ==
    [kind |-> "saving", keys |-> keys, appID |-> appID, failed |-> FALSE,
     err |-> FALSE, todo |-> todo, pc |-> "next", file |-> <<>>, tmp |-> <<>>]

\* no tick has just ended
NoTick == [fqdn |-> <<>>, file |-> <<>>, res |-> "none", read |-> ZeroKey,
           wrote |-> ZeroKey, late |-> FALSE]

\* what an operation leaves of the request, the probe and the SaveKeys call
\* of other goroutines: one that is in progress stays, one that has ended is
\* forgotten
KeptRequest(r) == IF r.list # {} THEN r ELSE NoRequest
Kept(p) == IF p.pc = "read" THEN p ELSE NoProbe
KeptCall(c) == IF c.kind = "saving" THEN c ELSE NoCall

\* the fqdns of a map whose record has a non-empty Key
Valid(keys) == { q \in DOMAIN keys : keys[q].Key # <<>> }

\* a snapshot that copies nothing
NoSnapshot == <<>>

\* k.Snapshot(): a copy of every record of the registry
Snapshot == [q \in DOMAIN store |-> store[q]]

\* a flush loop that returns when its callback returned an error
ReturnOnError(err) == IF err THEN "exited" ELSE "select"

\* StartPeriodicFlush after k.flushFunc(list) has returned: an error is
\* logged, and either way the loop is back at its select
AfterFlush(err) == "select"

\* what k.flushFunc(list) returns when SaveKeys has returned c: the callback
\* of application.New drops the error of SaveKeys
FlushFunc(c) == eng.flushFunc = "checked" /\ c.err

\* the flush loop when a step of SaveKeys leaves the call as c: the callback
\* returns with the call, a call made by no flush leaves the loop alone
Returned(c) ==
    IF eng.loop = "callback" /\ c.kind = "save"
    THEN [eng EXCEPT !.flushed = TRUE, !.loop = AfterFlush(FlushFunc(c)),
                     !.failed = @ \/ FlushFunc(c)]
    ELSE eng

\* the flush callback of this process calls memory SaveKeys
SaveKeysMemory ==
    /\ backend = "memory"
    /\ saves < MaxSaves
    /\ \E keys \in Batches :
         /\ memKeys' = MemSaveKeys(keys)
         /\ call' = Call(keys, <<>>, FALSE, Valid(keys) # DOMAIN keys)
    /\ saves' = saves + 1
    /\ http' = KeptRequest(http)
    /\ probe' = Kept(probe)
    /\ UNCHANGED <<backend, kv, pg, dump>>
    /\ UNCHANGED <<fsVars, keysVars, appVars, raceVars, metricVars, engineVars>>

\* a process with app id appID calls Redis SaveKeys: the loop over the map
\* skips the records without a key and comes to its first HSet, of the
\* record of q, which succeeds or not. A map without a record to write, or
\* with one, is done with at once
SaveKeysRedis ==
    /\ backend = "redis"
    /\ saves < MaxSaves
    /\ call.kind # "saving"
    /\ \E appID \in AppIDs : \E keys \in BatchesOf(appID) :
         IF Valid(keys) = {}
         THEN /\ call' = Call(keys, appID, FALSE, FALSE)
              /\ kv' = kv
         ELSE \E q \in Valid(keys), ok \in BOOLEAN :
                /\ kv' = IF ok
                         THEN RedisSaveKeys(kv, [x \in {q} |-> keys[q]], appID, {})
                         ELSE kv
                /\ call' = IF Valid(keys) = {q} THEN Call(keys, appID, ~ok, ~ok)
                           ELSE [Saving(keys, appID, Valid(keys) \ {q})
                                    EXCEPT !.failed = ~ok]
    /\ saves' = saves + 1
    /\ http' = KeptRequest(http)
    /\ probe' = Kept(probe)
    /\ UNCHANGED <<backend, memKeys, pg, dump>>
    /\ UNCHANGED <<fsVars, keysVars, appVars, raceVars, metricVars, engineVars>>

\* Redis SaveKeys, a later turn of the loop: HSet of the record of q, which
\* succeeds or not; after the last record SaveKeys returns, and to the flush
\* callback when that has called it
SaveKeysRedisHSet ==
    /\ backend = "redis"
    /\ call.kind = "saving"
    /\ call.pc = "next"
    /\ \E q \in call.todo, ok \in BOOLEAN :
         /\ kv' = IF ok
                  THEN RedisSaveKeys(kv, [x \in {q} |-> call.keys[q]], call.appID, {})
                  ELSE kv
         /\ call' = IF call.todo = {q}
                    THEN Call(call.keys, call.appID, call.failed \/ ~ok,
                              call.failed \/ ~ok)
                    ELSE [call EXCEPT !.todo = @ \ {q}, !.failed = @ \/ ~ok]
    /\ eng' = Returned(call')
    /\ tick' = NoTick
    /\ http' = KeptRequest(http)
    /\ probe' = Kept(probe)
    /\ UNCHANGED <<backend, memKeys, pg, saves, dump>>
    /\ UNCHANGED expires
    /\ UNCHANGED <<fsVars, keysVars, appVars, raceVars, metricVars>>

\* a process with app id appID calls PostgreSQL SaveKeys
SaveKeysPostgres ==
    /\ backend = "postgres"
    /\ saves < MaxSaves
    /\ \E appID \in AppIDs : \E keys \in BatchesOf(appID) :
         \E out \in PgOutcomes(keys) :
            /\ pg' = PgSaveKeys(pg, keys, appID, out.exec, out.commit)
            /\ call' = Call(keys, appID, ~PgCommitted(keys, out.exec, out.commit),
                            ~PgCommitted(keys, out.exec, out.commit))
    /\ saves' = saves + 1
    /\ http' = KeptRequest(http)
    /\ probe' = Kept(probe)
    /\ UNCHANGED <<backend, memKeys, kv, dump>>
    /\ UNCHANGED <<fsVars, keysVars, appVars, raceVars, metricVars, engineVars>>

\* the instant of the bytes saveFile writes to its temporary file
WriteInstant == IF eng.started THEN eng.time ELSE dump[call.tmp].mtime

\* whether a system call or a request to the backend succeeds
IoOutcomes == BOOLEAN

\* the instants of the clock at which saveFile can run
SaveInstants == IF eng.started THEN {eng.time} ELSE SaveTimes

\* the number that replaces the * of os.CreateTemp's pattern: one that no
\* other temporary file of DumpDir has
TempSerial == IF eng.started THEN eng.time ELSE saves

\* filesystem SaveKeys after saveFile, or SignedKeys before it, has returned
\* for the file of c: an error is appended and the loop goes on; after the
\* last file SaveKeys returns
FsAdvance(c, ok) ==
    LET failed == c.failed \/ ~ok
    IN  IF c.todo \subseteq {c.file}
        THEN Call(c.keys, c.appID, failed, failed \/ Valid(c.keys) # DOMAIN c.keys)
        ELSE [c EXCEPT !.todo = @ \ {c.file}, !.failed = failed, !.pc = "next",
                       !.file = <<>>, !.tmp = <<>>]

\* the flush callback of this process calls filesystem SaveKeys: the first
\* loop groups the records by file. A map without a record to write is done
\* with at once
SaveKeysFilesystem ==
    /\ backend = "filesystem"
    /\ saves < MaxDumps
    /\ call.kind # "saving"
    /\ \E keys \in Batches :
         call' = IF FsFiles(keys) = {}
                 THEN Call(keys, <<>>, FALSE, Valid(keys) # DOMAIN keys)
                 ELSE Saving(keys, <<>>, FsFiles(keys))
    /\ saves' = saves + 1
    /\ http' = KeptRequest(http)
    /\ probe' = Kept(probe)
    /\ UNCHANGED <<backend, memKeys, kv, pg, dump>>
    /\ UNCHANGED <<fsVars, keysVars, appVars, raceVars, metricVars, engineVars>>

\* filesystem SaveKeys, a turn of the second loop, up to os.CreateTemp of
\* saveFile: the map hands out a file, its records are signed, and the
\* temporary file is created empty in DumpDir; or SignedKeys or os.CreateTemp
\* fails and the loop goes on
SaveKeysFilesystemFile ==
    /\ backend = "filesystem"
    /\ call.kind = "saving"
    /\ call.pc = "next"
    /\ \E file \in call.todo, ok \in IoOutcomes :
         IF ok
         THEN \E now \in SaveInstants :
                /\ dump' = CreateTemp(dump, TempName(file, TempSerial), now)
                /\ call' = [call EXCEPT !.pc = "write", !.file = file,
                                        !.tmp = TempName(file, TempSerial)]
         ELSE /\ dump' = dump
              /\ call' = FsAdvance([call EXCEPT !.file = file], FALSE)
    /\ eng' = Returned(call')
    /\ tick' = NoTick
    /\ http' = KeptRequest(http)
    /\ probe' = Kept(probe)
    /\ UNCHANGED <<backend, memKeys, kv, pg, saves>>
    /\ UNCHANGED expires
    /\ UNCHANGED <<fsVars, keysVars, appVars, raceVars, metricVars>>

\* saveFile: tmpFile.Write(data) puts the signed manifest of the file's
\* records, in the order the map handed them out, into the temporary file;
\* or it fails, saveFile returns and the deferred os.Remove takes the
\* temporary file away
SaveFileTempWrite ==
    /\ call.kind = "saving"
    /\ call.pc = "write"
    /\ \E ok \in IoOutcomes :
         IF ok
         THEN \E order \in Orderings(FsGroup(call.keys, call.file)) :
                /\ dump' = WriteFile(dump, call.tmp,
                                     SignedKeys(call.file, order)[1], WriteInstant)
                /\ call' = [call EXCEPT !.pc = "rename"]
         ELSE /\ dump' = Remove(dump, call.tmp)
              /\ call' = FsAdvance(call, FALSE)
    /\ eng' = Returned(call')
    /\ tick' = NoTick
    /\ http' = KeptRequest(http)
    /\ probe' = Kept(probe)
    /\ UNCHANGED <<backend, memKeys, kv, pg, saves>>
    /\ UNCHANGED expires
    /\ UNCHANGED <<fsVars, keysVars, appVars, raceVars, metricVars>>

\* saveFile: tmpFile.Sync() and tmpFile.Close(), which change nothing that a
\* reader of DumpDir finds, then os.Rename(tmpFile.Name(), file) puts the
\* temporary file in the place of the manifest, and the deferred os.Remove
\* finds no temporary file; or one of the three fails and os.Remove takes
\* the temporary file away. saveFile returns, and SaveKeys after the last
\* file
SaveFileTempRename ==
    /\ call.kind = "saving"
    /\ call.pc = "rename"
    /\ \E ok \in IoOutcomes :
         /\ dump' = IF ok THEN Remove(Rename(dump, call.tmp, DestName(call.file)), call.tmp)
                    ELSE Remove(dump, call.tmp)
         /\ call' = FsAdvance(call, ok)
    /\ eng' = Returned(call')
    /\ tick' = NoTick
    /\ http' = KeptRequest(http)
    /\ probe' = Kept(probe)
    /\ UNCHANGED <<backend, memKeys, kv, pg, saves>>
    /\ UNCHANGED expires
    /\ UNCHANGED <<fsVars, keysVars, appVars, raceVars, metricVars>>

\* the path values {file} a client can send: a configured file, nothing, or
\* any other text, here one that is a glob pattern; it is sent to the KV
\* store, the others look the text up as a name that no record has
Requests ==
    Files \cup {<<>>}
    \cup (IF backend = "redis" THEN { <<"[", "g", "]", "*">> } ELSE {})

\* GET /api/v1/{file}: the handler up to the answer, or on the Redis store
\* up to the reply of KEYS, which fails, lists nothing (GetByFile returns
\* nil, nil, nil) or lists the hashes the pipeline will ask for
HandleFileJSON ==
    /\ ~Reading
    /\ \E file \in Requests :
         IF backend = "redis" /\ file # <<>>
         THEN \E ok \in BOOLEAN :
                http' = IF ~ok
                        THEN HandleFile(file,
                                 Failed(<<"failed to get keys from redis">>), TRUE)
                        ELSE IF RedisKeys(file) = {}
                        THEN HandleFile(file, Got(<<>>, <<>>, FALSE), TRUE)
                        ELSE Waiting(file, RedisKeys(file))
         ELSE \E got \in GetByFileResults(file) :
                \E signOk \in (IF NeedsSigning(got.keys) THEN BOOLEAN ELSE {TRUE}) :
                    http' = HandleFile(file, got, signOk)
    /\ call' = KeptCall(call)
    /\ probe' = NoProbe
    /\ UNCHANGED <<backend, memKeys, kv, pg, saves, dump>>
    /\ UNCHANGED <<fsVars, keysVars, appVars, raceVars, metricVars, engineVars>>

\* GET /api/v1/{file} on the Redis store, from the pipeline on: pipe.Exec
\* fails, or every HGETALL is answered from the keyspace as it is now
HandleFilePipeline ==
    /\ http.list # {}
    /\ \E got \in { Failed(<<"failed to execute pipeline">>) }
                    \cup RedisResults(http.list) :
         \E signOk \in (IF NeedsSigning(got.keys) THEN BOOLEAN ELSE {TRUE}) :
            http' = HandleFile(http.file, got, signOk)
    /\ call' = KeptCall(call)
    /\ probe' = NoProbe
    /\ UNCHANGED <<backend, memKeys, kv, pg, saves, dump>>
    /\ UNCHANGED <<fsVars, keysVars, appVars, raceVars, metricVars, engineVars>>

\* the app id of the process whose probes are followed: cfg.UUID of this
\* process on the stores that processes share
ProbeApp == IF backend \in {"redis", "postgres"} THEN EngineAppID ELSE <<>>

\* the instants now := time.Now() of a liveness handler: the current one once
\* the engine runs
ProbeInstants == IF eng.started THEN {eng.time} ELSE LivenessTimes

\* now := time.Now() of a handler that goes on to read, where a clock runs
HandlerInstant == IF eng.started THEN eng.time ELSE 0

\* the instants now of a liveness handler that has read
ReadInstants == IF eng.started THEN {probe.now} ELSE LivenessTimes

\* a probe that ends before it looks at a record or a file
Ended(kind, ok, err) ==
    Probe(kind, 0, ProbeApp, ok, Verdict({ <<err, <<>> >> }, 0))

\* GET of the liveness probe: the handler up to its first read. The memory
\* store is found empty or not; KEYS of the Redis store and os.ReadDir of the
\* filesystem store fail, list nothing or list what the handler goes on to
\* read; the PostgreSQL store answers its one query
ProbeLiveness ==
    /\ ~Reading
    /\ CASE backend = "memory" ->
              probe' = IF DOMAIN memKeys = {}
                       THEN Ended("liveness", TRUE, "no keys in memory")
                       ELSE Pending("liveness", ProbeApp, {}, HandlerInstant)
         [] backend = "redis" ->
              LET names == { n \in DOMAIN kv : GlobMatch(RedisAppPattern(ProbeApp), n) }
              IN  \E ok \in BOOLEAN :
                    probe' = IF ~ok
                             THEN Ended("liveness", ok, "failed to query redis")
                             ELSE IF names = {}
                             THEN Ended("liveness", ok, "no redis keys found for app")
                             ELSE Pending("liveness", ProbeApp, names, HandlerInstant)
         [] backend = "postgres" ->
              \E now \in ProbeInstants, ok \in BOOLEAN :
                 probe' = Probe("liveness", now, ProbeApp, ok,
                                PgLiveness(ProbeApp, now, ok))
         [] backend = "filesystem" ->
              \E ok \in BOOLEAN :
                 probe' = IF ~ok
                          THEN Ended("liveness", ok, "failed to read dump dir")
                          ELSE IF DOMAIN dump = {}
                          THEN Ended("liveness", ok, "no dump files found")
                          ELSE Pending("liveness", ProbeApp, DOMAIN dump, HandlerInstant)
    /\ call' = KeptCall(call)
    /\ http' = NoRequest
    /\ UNCHANGED <<backend, memKeys, kv, pg, saves, dump>>
    /\ UNCHANGED <<fsVars, keysVars, appVars, raceVars, metricVars, engineVars>>

\* the liveness probe goes on: the memory store's handler ranges over s.keys
\* as it is now, the Redis store's runs its pipeline, the filesystem store's
\* reads the next entry it listed; after the last read the handler answers
ProbeLivenessRead ==
    /\ probe.pc = "read"
    /\ probe.kind = "liveness"
    /\ CASE backend = "memory" ->
              \E now \in ReadInstants :
                 probe' = Probe("liveness", now, ProbeApp, TRUE, MemLiveness(now))
         [] backend = "redis" ->
              \E now \in ReadInstants, ok \in BOOLEAN :
                 probe' = Probe("liveness", now, ProbeApp, ok,
                                RedisLiveness(probe.list, now, ok))
         [] backend = "filesystem" ->
              LET name == FirstName(probe.list)
              IN  \E ok \in BOOLEAN :
                    LET read == probe.checks \cup FsLiveness(name, ok)
                    IN  IF probe.list = {name}
                        THEN \E now \in ReadInstants :
                               probe' = Probe("liveness", now, ProbeApp,
                                              probe.ok /\ ok, FsTally(read, now))
                        ELSE probe' = [probe EXCEPT !.list = @ \ {name},
                                                    !.checks = read, !.ok = @ /\ ok]
    /\ call' = KeptCall(call)
    /\ http' = NoRequest
    /\ UNCHANGED <<backend, memKeys, kv, pg, saves, dump>>
    /\ UNCHANGED <<fsVars, keysVars, appVars, raceVars, metricVars, engineVars>>

\* GET of the readiness probe, filesystem backend: the handler up to the
\* reply of os.ReadDir
ProbeReadinessFilesystem ==
    /\ backend = "filesystem"
    /\ ~Reading
    /\ \E ok \in BOOLEAN :
         probe' = IF ~ok
                  THEN Ended("readiness", ok, "failed to read dump dir")
                  ELSE IF DOMAIN dump = {}
                  THEN Ended("readiness", ok, "no dump files found")
                  ELSE Pending("readiness", ProbeApp, DOMAIN dump, HandlerInstant)
    /\ call' = KeptCall(call)
    /\ http' = NoRequest
    /\ UNCHANGED <<backend, memKeys, kv, pg, saves, dump>>
    /\ UNCHANGED <<fsVars, keysVars, appVars, raceVars, metricVars, engineVars>>

\* the readiness probe goes on: e.Info() of the next entry it listed; after
\* the last the handler answers
ProbeReadinessInfo ==
    /\ probe.pc = "read"
    /\ probe.kind = "readiness"
    /\ LET name == FirstName(probe.list)
       IN  \E ok \in BOOLEAN :
             LET read == probe.checks \cup FsReadiness(name, ok)
             IN  IF probe.list = {name}
                 THEN \E now \in ReadinessTimes :
                        probe' = Probe("readiness", now, ProbeApp, probe.ok /\ ok,
                                       FsVerdict(read, now))
                 ELSE probe' = [probe EXCEPT !.list = @ \ {name},
                                             !.checks = read, !.ok = @ /\ ok]
    /\ call' = KeptCall(call)
    /\ http' = NoRequest
    /\ UNCHANGED <<backend, memKeys, kv, pg, saves, dump>>
    /\ UNCHANGED <<fsVars, keysVars, appVars, raceVars, metricVars, engineVars>>

StoreNext ==
    \/ SaveKeysMemory
    \/ SaveKeysRedis
    \/ SaveKeysRedisHSet
    \/ SaveKeysPostgres
    \/ SaveKeysFilesystem
    \/ SaveKeysFilesystemFile
    \/ SaveFileTempWrite
    \/ SaveFileTempRename
    \/ HandleFileJSON
    \/ HandleFilePipeline
    \/ ProbeLiveness
    \/ ProbeLivenessRead
    \/ ProbeReadinessFilesystem
    \/ ProbeReadinessInfo


----------------------------------------------------------------------------
(* filesystem.Storage: saveFile and GetByFile, one system call at a time *)

\* number of saveFile calls explored
MaxFsWrites == 2
\* number of GetByFile calls explored
MaxFsReads == 1
\* number of write/read system calls a manifest takes
ChunkCount == 2

\* the bytes the n-th saveFile call is given, as the chunks it is written in
Data(n) == [i \in 1..ChunkCount |-> <<n, i>>]


\* saveFile(file, data) is called: os.CreateTemp creates an empty file, or
\* fails and saveFile returns at once
SaveFileCreateTemp ==
    /\ fsWrites < MaxFsWrites
    /\ \E file \in Files :
         LET w == fsWrites + 1
             name == TempName(file, w)
         IN  \E ok \in BOOLEAN :
               IF ok
               THEN /\ name \notin DOMAIN dir
                    /\ dir' = (name :> w) @@ dir
                    /\ inodes' = (w :> <<>>) @@ inodes
                    /\ writers' = (w :> [pc |-> "write", file |-> file, tmp |-> name,
                                         err |-> FALSE]) @@ writers
               ELSE /\ writers' = (w :> [pc |-> "done", file |-> file, tmp |-> <<>>,
                                         err |-> TRUE]) @@ writers
                    /\ UNCHANGED <<dir, inodes>>
    /\ fsWrites' = fsWrites + 1
    /\ UNCHANGED <<readers, scans>>
    /\ UNCHANGED <<storeVars, keysVars, appVars, raceVars, metricVars, engineVars>>

\* tmpFile.Write(data), one chunk reaching the file at a time
SaveFileWrite ==
    \E w \in DOMAIN writers :
        /\ writers[w].pc = "write"
        /\ inodes' = [inodes EXCEPT ![w] = Append(@, Data(w)[Len(@) + 1])]
        /\ writers' = [writers EXCEPT ![w].pc =
                          IF Len(inodes[w]) + 1 = ChunkCount THEN "sync" ELSE "write"]
        /\ UNCHANGED <<dir, readers, fsWrites, scans>>
        /\ UNCHANGED <<storeVars, keysVars, appVars, raceVars, metricVars, engineVars>>

\* tmpFile.Sync()
SaveFileSync ==
    \E w \in DOMAIN writers :
        /\ writers[w].pc = "sync"
        /\ writers' = [writers EXCEPT ![w].pc = "close"]
        /\ UNCHANGED <<dir, inodes, readers, fsWrites, scans>>
        /\ UNCHANGED <<storeVars, keysVars, appVars, raceVars, metricVars, engineVars>>

\* tmpFile.Close()
SaveFileClose ==
    \E w \in DOMAIN writers :
        /\ writers[w].pc = "close"
        /\ writers' = [writers EXCEPT ![w].pc = "rename"]
        /\ UNCHANGED <<dir, inodes, readers, fsWrites, scans>>
        /\ UNCHANGED <<storeVars, keysVars, appVars, raceVars, metricVars, engineVars>>

\* os.Rename(tmpFile.Name(), file): the destination name now refers to the
\* temporary file's inode and the temporary name is gone, in one step
SaveFileRename ==
    \E w \in DOMAIN writers :
        /\ writers[w].pc = "rename"
        /\ LET dest == DestName(writers[w].file)
               names == (DOMAIN dir \ {writers[w].tmp}) \cup {dest}
           IN  dir' = [n \in names |-> IF n = dest THEN dir[writers[w].tmp] ELSE dir[n]]
        /\ writers' = [writers EXCEPT ![w].pc = "remove"]
        /\ UNCHANGED <<inodes, readers, fsWrites, scans>>
        /\ UNCHANGED <<storeVars, keysVars, appVars, raceVars, metricVars, engineVars>>

\* Write, Sync, Close or Rename returns an error: saveFile returns it
SaveFileError ==
    \E w \in DOMAIN writers :
        /\ writers[w].pc \in {"write", "sync", "close", "rename"}
        /\ writers' = [writers EXCEPT ![w].pc = "remove", ![w].err = TRUE]
        /\ UNCHANGED <<dir, inodes, readers, fsWrites, scans>>
        /\ UNCHANGED <<storeVars, keysVars, appVars, raceVars, metricVars, engineVars>>

\* the deferred os.Remove(tmpFile.Name())
SaveFileRemoveTemp ==
    \E w \in DOMAIN writers :
        /\ writers[w].pc = "remove"
        /\ dir' = Remove(dir, writers[w].tmp)
        /\ writers' = [writers EXCEPT ![w].pc = "done"]
        /\ UNCHANGED <<inodes, readers, fsWrites, scans>>
        /\ UNCHANGED <<storeVars, keysVars, appVars, raceVars, metricVars, engineVars>>

\* GetByFile(file): os.ReadFile opens DumpDir/file, or fails
GetByFileOpen ==
    /\ Len(readers) < MaxFsReads
    /\ \E file \in Files :
         readers' = Append(readers,
            IF DestName(file) \in DOMAIN dir
            THEN [pc |-> "read", file |-> file, ino |-> dir[DestName(file)],
                  buf |-> <<>>, err |-> FALSE]
            ELSE [pc |-> "done", file |-> file, ino |-> 0, buf |-> <<>>, err |-> TRUE])
    /\ UNCHANGED <<dir, inodes, writers, fsWrites, scans>>
    /\ UNCHANGED <<storeVars, keysVars, appVars, raceVars, metricVars, engineVars>>

\* os.ReadFile reads the next chunk of the open file, or meets its end
GetByFileRead ==
    \E r \in DOMAIN readers :
        /\ readers[r].pc = "read"
        /\ LET have == Len(readers[r].buf)
               file == inodes[readers[r].ino]
           IN  readers' = [readers EXCEPT ![r] =
                   IF have < Len(file)
                   THEN [@ EXCEPT !.buf = Append(@, file[have + 1])]
                   ELSE [@ EXCEPT !.pc = "done"]]
        /\ UNCHANGED <<dir, inodes, writers, fsWrites, scans>>
        /\ UNCHANGED <<storeVars, keysVars, appVars, raceVars, metricVars, engineVars>>

\* number of health probes explored
MaxFsProbes == 1

\* whether name is a manifest's own name, not that of a temporary file
IsManifest(name) == \E file \in Files : name = DestName(file)

\* the records a file in DumpDir can hold: none, or one record of a target
Manifests ==
    { <<>> } \cup
    { <<[k EXCEPT !.File = <<>>]>> :
        k \in TargetRecords(<<"a">>, <<"f">>) }

\* filesystem ProbeLiveness, the body of the loop over the entries up to the
\* loop over the records, for the entry name: os.ReadFile and json.Unmarshal
\* of the bytes, which stop short of the end of the manifest or hold the
\* records keys; the result is the errors appended and the records to check
ScanFile(name, keys) ==
    IF name \notin DOMAIN dir THEN { <<"failed to read file", name, ZeroKey>> }
    ELSE IF Len(inodes[dir[name]]) < ChunkCount
    THEN { <<"failed to unmarshal file", name, ZeroKey>> }
    ELSE IF keys = <<>> THEN { <<"no keys in file", name, ZeroKey>> }
    ELSE { <<"record", <<name, k.Fqdn>>, k>> : k \in Range(keys) }

\* filesystem ProbeReadiness, the body of the loop for the entry name:
\* e.Info() and the modification time mtime it gives
ScanInfo(name, mtime) ==
    IF name \notin DOMAIN dir THEN { <<"failed to get file info", name, 0>> }
    ELSE { <<"info", name, mtime>> }

\* a probe that has read the directory and has the entries to go through
Scan(kind, entries, checks) ==
    [kind |-> kind, pc |-> "loop", entries |-> entries, checks |-> checks,
     errs |-> {}, status |-> 0]

\* a probe that has answered
Scanned(kind, v) ==
    [kind |-> kind, pc |-> "done", entries |-> {}, checks |-> {},
     errs |-> v.errs, status |-> v.status]

\* a liveness or readiness probe begins: os.ReadDir(s.dumpDir) fails, and
\* the probe answers with that error, or lists the entries, and an empty
\* directory is answered at once
ProbeReadDir ==
    /\ Len(scans) < MaxFsProbes
    /\ \E kind \in {"liveness", "readiness"}, ok \in BOOLEAN :
         scans' = Append(scans,
            IF ~ok
            THEN Scanned(kind, Verdict({ <<"failed to read dump dir", <<>> >> }, 0))
            ELSE IF DOMAIN dir = {}
            THEN Scanned(kind, Verdict({ <<"no dump files found", <<>> >> }, 0))
            ELSE Scan(kind, DOMAIN dir, {}))
    /\ UNCHANGED <<dir, inodes, writers, readers, fsWrites>>
    /\ UNCHANGED <<storeVars, keysVars, appVars, raceVars, metricVars, engineVars>>

\* the liveness probe reads the next entry it listed, whose bytes hold the
\* records keys once they are all written; after the last entry it checks
\* the records against its instant now and answers
ProbeEntry ==
    \E i \in DOMAIN scans :
        /\ scans[i].pc = "loop"
        /\ scans[i].kind = "liveness"
        /\ LET name == FirstName(scans[i].entries)
           IN  \E keys \in Manifests :
                 LET read == scans[i].checks \cup ScanFile(name, keys)
                 IN  IF scans[i].entries = {name}
                     THEN \E now \in LivenessTimes :
                            scans' = [scans EXCEPT ![i] =
                                         Scanned("liveness", FsTally(read, now))]
                     ELSE scans' = [scans EXCEPT ![i] =
                                       Scan("liveness", @.entries \ {name}, read)]
        /\ UNCHANGED <<dir, inodes, writers, readers, fsWrites>>
        /\ UNCHANGED <<storeVars, keysVars, appVars, raceVars, metricVars, engineVars>>

\* the readiness probe asks for the Info of the next entry it listed, last
\* modified at instant mtime; after the last entry it answers
ProbeEntryInfo ==
    \E i \in DOMAIN scans :
        /\ scans[i].pc = "loop"
        /\ scans[i].kind = "readiness"
        /\ LET name == FirstName(scans[i].entries)
           IN  \E mtime \in SaveTimes :
                 LET read == scans[i].checks \cup ScanInfo(name, mtime)
                 IN  IF scans[i].entries = {name}
                     THEN \E now \in ReadinessTimes :
                            scans' = [scans EXCEPT ![i] =
                                         Scanned("readiness", FsVerdict(read, now))]
                     ELSE scans' = [scans EXCEPT ![i] =
                                       Scan("readiness", @.entries \ {name}, read)]
        /\ UNCHANGED <<dir, inodes, writers, readers, fsWrites>>
        /\ UNCHANGED <<storeVars, keysVars, appVars, raceVars, metricVars, engineVars>>

FsNext ==
    \/ SaveFileCreateTemp
    \/ SaveFileWrite
    \/ SaveFileSync
    \/ SaveFileClose
    \/ SaveFileRename
    \/ SaveFileError
    \/ SaveFileRemoveTemp
    \/ GetByFileOpen
    \/ GetByFileRead

\* saveFile against the health probes
ScanNext ==
    \/ SaveFileCreateTemp
    \/ SaveFileWrite
    \/ SaveFileSync
    \/ SaveFileClose
    \/ SaveFileRename
    \/ SaveFileError
    \/ SaveFileRemoveTemp
    \/ ProbeReadDir
    \/ ProbeEntry
    \/ ProbeEntryInfo


----------------------------------------------------------------------------
(* package keys: the pin registry, its lock and the probe workers *)

\* number of AddKey calls explored
MaxAddKeys == 2
\* number of worker ticks explored
MaxTicks == 2
\* number of direct Set calls explored
MaxSets == 2
\* number of Snapshot calls explored
MaxSnapshots == 1
\* number of calls explored in all
MaxCalls == 5

\* goroutines: main (NewKeys), the worker of an fqdn, the n-th caller of
\* Set, the n-th caller of Snapshot
MainG == <<"m">>
WorkerG(fqdn) == <<"w">> \o fqdn
SetterG(n) == <<"s">> \o FormatNat(n)
SnapG(n) == <<"r">> \o FormatNat(n)

\* time.Now() of a tick
Now == <<1>>

\* what fetchDomainKey can return on success: Key and Expire
Pins == { [Key |-> <<"K", "1">>, Expire |-> 1], [Key |-> <<"K", "2">>, Expire |-> 2] }

\* a lock that never makes its caller wait
NoLock == TRUE

\* k.mu.Lock() returns: no goroutine holds the lock in either mode
CanLock == muWriter = {} /\ muReaders = {}

\* a read lock that never makes its caller wait
NoRLock == TRUE

\* k.mu.RLock() returns: no goroutine holds the write lock
CanRLock == muWriter = {}

\* the records made of the fields of a and b (a data race on a record can
\* leave any of them)
Mix(a, b) ==
    { [a EXCEPT !.Key = x.Key, !.Expire = y.Expire, !.Fqdn = z.Fqdn] :
        x \in {a, b}, y \in {a, b}, z \in {a, b} }

\* the pin a worker has observed, taken for the map key
WorkerPinKey(w) == w.val.Key

\* the map key a worker writes its record under: k.Set(key.Fqdn, val)
WorkerStoreKey(w) == w.fqdn

\* the values being written under key by the other goroutines inside Set
Racing(g, key) ==
    { setters[o].v : o \in { x \in (DOMAIN setters) \ {g} :
                               setters[x].pc = "store" /\ setters[x].key = key } }
    \cup { wk[q].val : q \in { x \in DOMAIN wk :
                               WorkerG(x) # g /\ wk[x].pc = "store"
                               /\ WorkerStoreKey(wk[x]) = key } }

\* k.store[key] = &v: what the map can hold under key afterwards. Go defines
\* the result only when no other goroutine is writing the map.
Stored(g, key, v) ==
    IF Racing(g, key) = {} THEN {v}
    ELSE UNION { Mix(v, o) : o \in Racing(g, key) }

\* *ptr read from k.store[key]: defined only when no goroutine is writing
Loaded(key) ==
    IF Racing(<<>>, key) = {} THEN {store[key]}
    ELSE UNION { Mix(store[key], o) : o \in Racing(<<>>, key) }

\* the store after k.store[key] = &v stored value x
Put(key, x) ==
    [q \in DOMAIN store \cup {key} |-> IF q = key THEN x ELSE store[q]]

\* remember that a Set(key, v) has stored its record
Commit(key, v) ==
    [q \in DOMAIN committed \cup {key} |->
        IF q = key THEN (IF q \in DOMAIN committed THEN committed[q] ELSE {}) \cup {v}
        ELSE committed[q]]


\* the calls of AddKey, Set and Snapshot and the ticks begun so far
Calls == ops.add + ops.tick + ops.set + ops.snap

\* ---- Set, called directly

SetCall ==
    /\ ops.set < MaxSets /\ Calls < MaxCalls
    /\ \E key \in DOMAIN store, pin \in Pins :
         setters' = (SetterG(ops.set + 1) :>
                       [kind |-> "set", pc |-> "lock", key |-> key,
                        v |-> [store[key] EXCEPT !.Key = pin.Key, !.Expire = pin.Expire,
                                                 !.Date = Now]]) @@ setters
    /\ ops' = [ops EXCEPT !.set = @ + 1]
    /\ UNCHANGED <<store, muWriter, muReaders, workers, wk, snap, committed>>
    /\ UNCHANGED <<storeVars, fsVars, appVars, raceVars, metricVars, engineVars>>

\* k.mu.Lock() in Set (a direct call or the one AddKey makes)
SetLock ==
    \E g \in DOMAIN setters :
        /\ setters[g].pc = "lock"
        /\ CanLock
        /\ muWriter' = muWriter \cup {g}
        /\ setters' = [setters EXCEPT ![g].pc = "store"]
        /\ UNCHANGED <<store, muReaders, workers, wk, snap, committed, ops>>
        /\ UNCHANGED <<storeVars, fsVars, appVars, raceVars, metricVars, engineVars>>

\* k.store[key] = &v and the deferred k.mu.Unlock()
SetStore ==
    \E g \in DOMAIN setters :
        /\ setters[g].pc = "store"
        /\ \E x \in Stored(g, setters[g].key, setters[g].v) :
              store' = Put(setters[g].key, x)
        /\ committed' = Commit(setters[g].key, setters[g].v)
        /\ muWriter' = muWriter \ {g}
        /\ setters' = [setters EXCEPT ![g].pc =
                          IF setters[g].kind = "add" THEN "spawn" ELSE "done"]
        /\ UNCHANGED <<muReaders, workers, wk, snap, ops>>
        /\ UNCHANGED <<storeVars, fsVars, appVars, raceVars, metricVars, engineVars>>

\* ---- AddKey, called by NewKeys for each configured key

\* AddKey(fqdn, key) begins: k.Set(fqdn, *key)
AddKeyCall ==
    /\ ops.add < MaxAddKeys /\ Calls < MaxCalls
    /\ IF MainG \in DOMAIN setters THEN setters[MainG].pc = "done" ELSE TRUE
    /\ \E fqdn \in Fqdns :
         setters' = [g \in DOMAIN setters \cup {MainG} |->
                       IF g = MainG
                       THEN [kind |-> "add", pc |-> "lock", key |-> fqdn,
                             v |-> [ZeroKey EXCEPT !.Fqdn = fqdn, !.File = DefaultFile(fqdn),
                                                   !.DomainName = DefaultDomainName(fqdn)]]
                       ELSE setters[g]]
    /\ ops' = [ops EXCEPT !.add = @ + 1]
    /\ UNCHANGED <<store, muWriter, muReaders, workers, wk, snap, committed>>
    /\ UNCHANGED <<storeVars, fsVars, appVars, raceVars, metricVars, engineVars>>

\* a registry that reports no worker for any fqdn
NoneExists(fqdn) == FALSE

\* _, exists := k.workers[fqdn]
Exists(fqdn) == fqdn \in workers

\* the rest of AddKey: no worker is started when one is registered
AddKeySpawn ==
    /\ MainG \in DOMAIN setters
    /\ setters[MainG].pc = "spawn"
    /\ LET fqdn == setters[MainG].key
       IN  IF Exists(fqdn)
           THEN UNCHANGED <<workers, wk, ops>>
           ELSE /\ workers' = workers \cup {fqdn}
                /\ wk' = (fqdn :> [pc |-> "idle", fqdn |-> setters[MainG].v.Fqdn,
                                   file |-> setters[MainG].v.File,
                                   val |-> ZeroKey]) @@ wk
                /\ ops' = [ops EXCEPT !.spawn[fqdn] = @ + 1]
    /\ setters' = [setters EXCEPT ![MainG].pc = "done"]
    /\ UNCHANGED <<store, muWriter, muReaders, snap, committed>>
    /\ UNCHANGED <<storeVars, fsVars, appVars, raceVars, metricVars, engineVars>>


\* ---- worker: one tick of the loop

\* k.Get(key): the record under key, or the zero DomainKey
Get(key) == IF key \in DOMAIN store THEN Loaded(key) ELSE {ZeroKey}

\* the ticker fires: cur := time.Now(); val, _ := k.Get(key.Fqdn); val.Date = &cur
WorkerGet ==
    /\ ops.tick < MaxTicks /\ Calls < MaxCalls
    /\ \E q \in DOMAIN wk :
        /\ wk[q].pc = "idle"
        /\ CanRLock
        /\ \E v \in Get(wk[q].fqdn) :
             wk' = [wk EXCEPT ![q].pc = "fetch", ![q].val = [v EXCEPT !.Date = Now]]
    /\ ops' = [ops EXCEPT !.tick = @ + 1]
    /\ UNCHANGED <<store, muWriter, muReaders, workers, setters, snap, committed>>
    /\ UNCHANGED <<storeVars, fsVars, appVars, raceVars, metricVars, engineVars>>

\* val after fetchDomainKey returned res without error
ProbeOk(val, res) ==
    [val EXCEPT !.Expire = res.Expire, !.Key = res.Key, !.LastError = <<>>]

\* val after fetchDomainKey returned an error, were the pin dropped with it
ProbeReset(val) == [val EXCEPT !.Key = <<>>, !.Expire = 0, !.LastError = <<"e">>]

\* val after fetchDomainKey returned an error
ProbeFailed(val) == [val EXCEPT !.LastError = <<"e">>]

\* fetchDomainKey(key.Fqdn) returns
WorkerFetch ==
    \E q \in DOMAIN wk :
        /\ wk[q].pc = "fetch"
        /\ \E v \in { ProbeOk(wk[q].val, res) : res \in Pins } \cup { ProbeFailed(wk[q].val) } :
             wk' = [wk EXCEPT ![q].pc = "lock", ![q].val = v]
        /\ UNCHANGED <<store, muWriter, muReaders, workers, setters, snap, committed, ops>>
        /\ UNCHANGED <<storeVars, fsVars, appVars, raceVars, metricVars, engineVars>>

\* k.Set(key.Fqdn, val): k.mu.Lock()
WorkerSetLock ==
    \E q \in DOMAIN wk :
        /\ wk[q].pc = "lock"
        /\ CanLock
        /\ muWriter' = muWriter \cup {WorkerG(q)}
        /\ wk' = [wk EXCEPT ![q].pc = "store"]
        /\ UNCHANGED <<store, muReaders, workers, setters, snap, committed, ops>>
        /\ UNCHANGED <<storeVars, fsVars, appVars, raceVars, metricVars, engineVars>>

\* k.Set(key.Fqdn, val): the store and the unlock; the tick is over
WorkerSetStore ==
    \E q \in DOMAIN wk :
        /\ wk[q].pc = "store"
        /\ \E x \in Stored(WorkerG(q), WorkerStoreKey(wk[q]), wk[q].val) :
              store' = Put(WorkerStoreKey(wk[q]), x)
        /\ committed' = Commit(WorkerStoreKey(wk[q]), wk[q].val)
        /\ muWriter' = muWriter \ {WorkerG(q)}
        /\ wk' = [wk EXCEPT ![q].pc = "idle"]
        /\ UNCHANGED <<muReaders, workers, setters, snap, ops>>
        /\ UNCHANGED <<storeVars, fsVars, appVars, raceVars, metricVars, engineVars>>

\* ---- Snapshot

\* Snapshot is called: k.mu.RLock(), out := make(map)
SnapshotRLock ==
    /\ ops.snap < MaxSnapshots /\ Calls < MaxCalls
    /\ CanRLock
    /\ LET g == SnapG(ops.snap + 1)
       IN  /\ muReaders' = muReaders \cup {g}
           /\ snap' = (g :> [pc |-> "copy", out |-> <<>>, todo |-> DOMAIN store]) @@ snap
    /\ ops' = [ops EXCEPT !.snap = @ + 1]
    /\ UNCHANGED <<store, muWriter, workers, wk, setters, committed>>
    /\ UNCHANGED <<storeVars, fsVars, appVars, raceVars, metricVars, engineVars>>

\* one iteration of the range loop: out[fqdn] = *ptr
SnapshotCopy ==
    \E g \in DOMAIN snap :
        /\ snap[g].pc = "copy"
        /\ \E fqdn \in snap[g].todo :
            \E x \in Loaded(fqdn) :
              snap' = [snap EXCEPT ![g].out = (fqdn :> x) @@ @,
                                   ![g].todo = @ \ {fqdn}]
        /\ UNCHANGED <<store, muWriter, muReaders, workers, wk, setters, committed, ops>>
        /\ UNCHANGED <<storeVars, fsVars, appVars, raceVars, metricVars, engineVars>>

\* a read lock kept by the caller after Snapshot has returned
RLockKept(g) == muReaders

\* the deferred k.mu.RUnlock() of Snapshot
RUnlock(g) == muReaders \ {g}

\* the loop is over: the deferred k.mu.RUnlock(), return out. In
\* StartPeriodicFlush the caller then runs k.flushFunc(list), which may take
\* any time or never return: the goroutine stays at "done"
SnapshotReturn ==
    \E g \in DOMAIN snap :
        /\ snap[g].pc = "copy"
        /\ snap[g].todo = {}
        /\ muReaders' = RUnlock(g)
        /\ snap' = [snap EXCEPT ![g].pc = "done"]
        /\ UNCHANGED <<store, muWriter, workers, wk, setters, committed, ops>>
        /\ UNCHANGED <<storeVars, fsVars, appVars, raceVars, metricVars, engineVars>>

KeysNext ==
    \/ SetCall
    \/ SetLock
    \/ SetStore
    \/ AddKeyCall
    \/ AddKeySpawn
    \/ WorkerGet
    \/ WorkerFetch
    \/ WorkerSetLock
    \/ WorkerSetStore
    \/ SnapshotRLock
    \/ SnapshotCopy
    \/ SnapshotReturn


----------------------------------------------------------------------------
(* package application and package server: startup and shutdown *)

\* the timeout the comment of Server.Down gives for the shutdown, in seconds
ShutdownTimeout == 10
\* seconds of waiting explored in one Server.Down
MaxWait == 11
\* probes and flushes counted
MaxActivity == 2

Servers == {"metrics", "http"}

\* Server.Down passes s.ctx, context.Background(), to http.Server.Shutdown:
\* a context without deadline
DownCtxHasDeadline == FALSE

\* application.New passes context.Background() to keys.NewKeys and keeps no
\* cancel function: nothing in App.Down can cancel the engine's context
DownCancelsEngine == FALSE


Running == exitCode = -1

Bump(n) == IF n < MaxActivity THEN n + 1 ELSE n

\* a request arrives at a server that is accepting connections
ConnOpen ==
    /\ Running
    /\ \E s \in Servers :
        /\ srv[s].state = "serving"
        /\ ~srv[s].busy
        /\ srv' = [srv EXCEPT ![s].busy = TRUE]
    /\ UNCHANGED <<mainPc, ctxDone, closeCalls, exitCode, activity, clock>>
    /\ UNCHANGED <<storeVars, fsVars, keysVars, raceVars, metricVars, engineVars>>

\* the request in flight completes and its connection becomes idle
ConnDone ==
    /\ Running
    /\ \E s \in Servers :
        /\ srv[s].busy
        /\ srv' = [srv EXCEPT ![s].busy = FALSE]
    /\ UNCHANGED <<mainPc, ctxDone, closeCalls, exitCode, activity, clock>>
    /\ UNCHANGED <<storeVars, fsVars, keysVars, raceVars, metricVars, engineVars>>

\* App.Up: sig := <-sigs, then a.Down() calls a.serverMetrics.Down(), whose
\* http.Server.Shutdown closes the listeners
Signal ==
    /\ Running
    /\ mainPc = "up"
    /\ mainPc' = "metricsDown"
    /\ srv' = [srv EXCEPT !["metrics"].state = "shutdown"]
    /\ UNCHANGED <<ctxDone, closeCalls, exitCode, activity, clock>>
    /\ UNCHANGED <<storeVars, fsVars, keysVars, raceVars, metricVars, engineVars>>

\* the server whose Down the main goroutine is in
DownOf(pc) == IF pc = "metricsDown" THEN "metrics" ELSE "http"

\* http.Server.Shutdown(ctx) returns: every connection is idle, or the
\* context's deadline has passed
ShutdownReturns(s) ==
    \/ ~srv[s].busy
    \/ DownCtxHasDeadline /\ srv[s].waited >= ShutdownTimeout

\* a second passes while Shutdown polls and a connection is still active
ShutdownWait ==
    /\ Running
    /\ mainPc \in {"metricsDown", "httpDown"}
    /\ srv[DownOf(mainPc)].busy
    /\ ~ShutdownReturns(DownOf(mainPc))
    /\ srv[DownOf(mainPc)].waited < MaxWait
    /\ srv' = [srv EXCEPT ![DownOf(mainPc)].waited = @ + 1]
    /\ clock' = clock + 1
    /\ UNCHANGED <<mainPc, ctxDone, closeCalls, exitCode, activity>>
    /\ UNCHANGED <<storeVars, fsVars, keysVars, raceVars, metricVars, engineVars>>

\* Server.Down goes on after Shutdown: an error other than
\* context.DeadlineExceeded ends the process with os.Exit(1)
ServerDown ==
    /\ Running
    /\ mainPc \in {"metricsDown", "httpDown"}
    /\ LET s == DownOf(mainPc)
       IN  /\ ShutdownReturns(s)
           /\ \E lnerr \in BOOLEAN :
                IF lnerr /\ ~srv[s].busy
                THEN /\ exitCode' = 1
                     /\ mainPc' = "exited"
                     /\ srv' = [srv EXCEPT ![s].state = "stopped"]
                ELSE /\ exitCode' = exitCode
                     /\ mainPc' = IF mainPc = "metricsDown" THEN "httpDown" ELSE "close"
                     /\ srv' = [t \in Servers |->
                                 IF t = s THEN [srv[t] EXCEPT !.state = "stopped"]
                                 ELSE IF mainPc = "metricsDown"
                                 THEN [srv[t] EXCEPT !.state = "shutdown"]
                                 ELSE srv[t]]
    /\ ctxDone' = (ctxDone \/ (DownCancelsEngine /\ mainPc' = "close"))
    /\ UNCHANGED <<closeCalls, activity, clock>>
    /\ UNCHANGED <<storeVars, fsVars, keysVars, raceVars, metricVars, engineVars>>

\* App.Down: a.storage.Close(), then Down and Up return
StorageClose ==
    /\ Running
    /\ mainPc = "close"
    /\ closeCalls' = closeCalls + 1
    /\ mainPc' = "returned"
    /\ UNCHANGED <<srv, ctxDone, exitCode, activity, clock>>
    /\ UNCHANGED <<storeVars, fsVars, keysVars, raceVars, metricVars, engineVars>>

\* the command's Run returns and the process ends with status 0
ProcessExit ==
    /\ Running
    /\ mainPc = "returned"
    /\ mainPc' = "exited"
    /\ exitCode' = 0
    /\ UNCHANGED <<srv, ctxDone, closeCalls, activity, clock>>
    /\ UNCHANGED <<storeVars, fsVars, keysVars, raceVars, metricVars, engineVars>>

\* a worker's ticker fires and its context is not done: it starts a probe
\* and writes the registry
ProbeTick ==
    /\ Running
    /\ ~ctxDone
    /\ activity' = [activity EXCEPT
                      !.probes = Bump(@),
                      !.afterDown = IF mainPc = "returned" THEN Bump(@) ELSE @]
    /\ UNCHANGED <<mainPc, srv, ctxDone, closeCalls, exitCode, clock>>
    /\ UNCHANGED <<storeVars, fsVars, keysVars, raceVars, metricVars, engineVars>>

\* the flush ticker fires and the context is not done: the flush callback
\* calls store.SaveKeys
FlushTick ==
    /\ Running
    /\ ~ctxDone
    /\ activity' = [activity EXCEPT
                      !.flushes = Bump(@),
                      !.afterDown = IF mainPc = "returned" THEN Bump(@) ELSE @,
                      !.afterClose = IF closeCalls > 0 THEN Bump(@) ELSE @]
    /\ UNCHANGED <<mainPc, srv, ctxDone, closeCalls, exitCode, clock>>
    /\ UNCHANGED <<storeVars, fsVars, keysVars, raceVars, metricVars, engineVars>>

AppNext ==
    \/ ConnOpen
    \/ ConnDone
    \/ Signal
    \/ ShutdownWait
    \/ ServerDown
    \/ StorageClose
    \/ ProcessExit
    \/ ProbeTick
    \/ FlushTick

----------------------------------------------------------------------------
(* memory.Storage: SaveKeys against a concurrent reader *)

\* number of SaveKeys calls explored
MaxMemSaves == 2
\* number of GetByFile calls explored
MaxMemReads == 1

\* memory.Storage has no lock and no atomic: SaveKeys fills the map list and
\* stores it in s.keys with plain stores, GetByFile and the probes load
\* s.keys and range over it with plain loads, on other goroutines. Nothing
\* orders the stores of SaveKeys for a reader: each of them, the insertion
\* of a record into list or the store of list into s.keys, reaches the
\* readers at a moment of its own. memKeys is s.keys as a reader observes it.

\* the map a reader observes while the stores of the SaveKeys call c are
\* reaching it: the earlier map until the store into s.keys is visible,
\* then the new map with the records whose insertion is visible
Observed(c) == IF c.ptr THEN [q \in c.ents |-> c.new[q]] ELSE c.old

\* SaveKeys(keys) runs to its return on the flush goroutine: its stores are
\* issued
MemSaveKeysIssue ==
    /\ backend = "memory"
    /\ memSave.pc = "idle"
    /\ memSave.n < MaxMemSaves
    /\ \E keys \in Batches :
         memSave' = [n |-> memSave.n + 1, pc |-> "issued", old |-> memKeys,
                     new |-> MemSaveKeys(keys), ptr |-> FALSE, ents |-> {}]
    /\ UNCHANGED <<backend, memKeys, kv, pg, saves, http, dump, call, probe>>
    /\ UNCHANGED memRead
    /\ UNCHANGED <<fsVars, keysVars, appVars, metricVars, engineVars>>

\* one store of the call becomes visible to the readers: the store into
\* s.keys, or the insertion of the record of fqdn q
MemStoreVisible ==
    /\ memSave.pc = "issued"
    /\ \E w \in (IF memSave.ptr THEN {} ELSE { <<>> })
                \cup (DOMAIN memSave.new \ memSave.ents) :
         LET next == IF w = <<>> THEN [memSave EXCEPT !.ptr = TRUE]
                     ELSE [memSave EXCEPT !.ents = @ \cup {w}]
             all  == next.ptr /\ next.ents = DOMAIN next.new
         IN  /\ memSave' = [next EXCEPT !.pc = IF all THEN "idle" ELSE "issued"]
             /\ memKeys' = Observed(next)
    /\ UNCHANGED <<backend, kv, pg, saves, http, dump, call, probe>>
    /\ UNCHANGED memRead
    /\ UNCHANGED <<fsVars, keysVars, appVars, metricVars, engineVars>>

\* GetByFile(file) on a request goroutine: it ranges over the map it
\* observes
MemGetByFileRace ==
    /\ backend = "memory"
    /\ Len(memRead) < MaxMemReads
    /\ \E file \in Files :
         memRead' = Append(memRead,
            [file |-> file, view |-> memKeys, keys |-> MemGetByFile(file),
             old |-> memSave.old, new |-> memSave.new])
    /\ UNCHANGED memSave
    /\ UNCHANGED <<storeVars, fsVars, keysVars, appVars, metricVars, engineVars>>

MemNext ==
    \/ MemSaveKeysIssue
    \/ MemStoreVisible
    \/ MemGetByFileRace

----------------------------------------------------------------------------
(* metrics.Collector: the error counters *)

\* number of IncError calls explored
MaxIncs == 2
\* number of Collect calls explored
MaxScrapes == 1

\* the probe workers, which may share a file
ProbeWorkers == {"w1", "w2"}

\* c.errors.LoadOrStore(file, 0.0): the value loaded
LoadOrStoreValue(file) == IF file \in DOMAIN errors THEN errors[file] ELSE 0

\* c.errors.LoadOrStore(file, 0.0): the map afterwards
LoadOrStore(file) == IF file \in DOMAIN errors THEN errors ELSE (file :> 0) @@ errors

\* c.errors.Store(file, val)
StoreError(file, val) ==
    [f \in DOMAIN errors \cup {file} |-> IF f = file THEN val ELSE errors[f]]

\* c.expires.Store(ExpireItem{key, fqdn}, expire)
SetExpire(key, fqdn, expire) ==
    [i \in DOMAIN expires \cup {<<key, fqdn>>} |->
        IF i = <<key, fqdn>> THEN expire ELSE expires[i]]

\* c.expires.Delete(ExpireItem{key, fqdn}); the worker never calls it, and
\* nothing else in the program does: the callers are those of the package's
\* interface
ClearExpire(key, fqdn) ==
    [i \in DOMAIN expires \ {<<key, fqdn>>} |-> expires[i]]

\* the series a caller of the collector names
ExpireItems == { <<k, <<"a">>>> : k \in { p.Key : p \in Pins } }

\* IncError(file), first statement, on worker w: val, _ := LoadOrStore(file, 0.0)
IncErrorLoad ==
    /\ tally.started < MaxIncs
    /\ \E w \in ProbeWorkers, file \in Files :
         /\ incs[w].pc = "idle"
         /\ incs' = [incs EXCEPT ![w] = [pc |-> "store", file |-> file,
                                         val |-> LoadOrStoreValue(file)]]
         /\ errors' = LoadOrStore(file)
    /\ tally' = [tally EXCEPT !.started = @ + 1]
    /\ UNCHANGED scrapes
    /\ UNCHANGED <<storeVars, fsVars, keysVars, appVars, raceVars, engineVars>>

\* IncError(file), second statement: Store(file, val + 1), and return
IncErrorStore ==
    /\ \E w \in ProbeWorkers :
         /\ incs[w].pc = "store"
         /\ errors' = StoreError(incs[w].file, incs[w].val + 1)
         /\ tally' = [tally EXCEPT !.calls[incs[w].file] = @ + 1]
         /\ incs' = [incs EXCEPT ![w] = [pc |-> "idle", file |-> <<>>, val |-> 0]]
    /\ UNCHANGED scrapes
    /\ UNCHANGED <<storeVars, fsVars, keysVars, appVars, raceVars, engineVars>>

\* a scrape calls Collect
CollectStart ==
    /\ Len(scrapes) < MaxScrapes
    /\ scrapes' = Append(scrapes, [pc |-> "range", seen |-> {}, file |-> <<>>])
    /\ UNCHANGED <<errors, incs, tally>>
    /\ UNCHANGED <<storeVars, fsVars, keysVars, appVars, raceVars, engineVars>>

\* Collect, c.errors.Range visits the next file: its value is loaded and the
\* sample ssl_pinning_errors{file} is sent with it
CollectEmit ==
    /\ \E s \in DOMAIN scrapes :
         /\ scrapes[s].pc = "range"
         /\ \E file \in DOMAIN errors \ scrapes[s].seen :
              /\ tally' = [tally EXCEPT !.emitted[file] = @ + errors[file]]
              /\ scrapes' = [scrapes EXCEPT ![s].pc = "clear", ![s].file = file]
    /\ UNCHANGED <<errors, incs>>
    /\ UNCHANGED <<storeVars, fsVars, keysVars, appVars, raceVars, engineVars>>

\* Collect, c.ClearError(file) after the sample is sent: Store(file, 0.0)
CollectClear ==
    /\ \E s \in DOMAIN scrapes :
         /\ scrapes[s].pc = "clear"
         /\ errors' = StoreError(scrapes[s].file, 0)
         /\ scrapes' = [scrapes EXCEPT ![s].pc = "range",
                                       ![s].seen = @ \cup {scrapes[s].file},
                                       ![s].file = <<>>]
    /\ UNCHANGED <<incs, tally>>
    /\ UNCHANGED <<storeVars, fsVars, keysVars, appVars, raceVars, engineVars>>

\* Collect, c.errors.Range has visited every file: the samples of
\* ssl_pinning_expire are sent, which changes nothing, and Collect returns
CollectReturn ==
    /\ \E s \in DOMAIN scrapes :
         /\ scrapes[s].pc = "range"
         /\ DOMAIN errors \subseteq scrapes[s].seen
         /\ scrapes' = [scrapes EXCEPT ![s].pc = "done"]
    /\ UNCHANGED <<errors, incs, tally>>
    /\ UNCHANGED <<storeVars, fsVars, keysVars, appVars, raceVars, engineVars>>

\* SetExpire(key, fqdn, expire), called on any goroutine: the entry of the
\* series is stored
CollectorSetExpire ==
    /\ \E i \in ExpireItems, p \in Pins :
         expires' = SetExpire(i[1], i[2], p.Expire)
    /\ UNCHANGED <<eng, tick>>
    /\ UNCHANGED <<storeVars, fsVars, keysVars, appVars, raceVars, metricVars>>

\* ClearExpire(key, fqdn), called on any goroutine: the entry of the series
\* is deleted, and deleting one that is not there changes nothing
CollectorClearExpire ==
    /\ \E i \in ExpireItems :
         expires' = ClearExpire(i[1], i[2])
    /\ UNCHANGED <<eng, tick>>
    /\ UNCHANGED <<storeVars, fsVars, keysVars, appVars, raceVars, metricVars>>

MetricsNext ==
    \/ CollectorSetExpire
    \/ CollectorClearExpire
    \/ IncErrorLoad
    \/ IncErrorStore
    \/ CollectStart
    \/ CollectEmit
    \/ CollectClear
    \/ CollectReturn

----------------------------------------------------------------------------
(* package keys in time: the workers under their tickers and contexts, the
   periodic flush and its callback *)

\* seconds explored
MaxClock == 19
\* seconds explored once a probe has failed or a worker was cancelled, and
\* under the shortest dump interval
MaxEventful == 2
\* probe failures counted by the collector
MaxFailures == 1
\* the instant at which the target's certificate is replaced
RotateAt == 3
\* seconds that pass while a worker is inside one tick (fetchDomainKey, which
\* tls.timeout bounds, and k.Set)
MaxProbe == 2

\* tls.dump_interval, in seconds
DumpIntervals == {1, 10}

\* the target lists of the configuration: one target, or two in one file
TargetLists == { {<<"a">>}, {<<"a">>, <<"b">>} }

\* the file every target is configured in
TargetFile == <<"f">>

\* the key field of a target in the configuration: absent, or set (Config.Keys
\* is a list of DomainKey and config.New fills in file and domainName only)
ConfigKeys == { <<>>, PinK }

\* the record NewKeys gets for a target whose configured key field is key
TargetKey(fqdn, key) ==
    [ZeroKey EXCEPT !.Fqdn = fqdn, !.File = TargetFile, !.Key = key,
                    !.DomainName = DefaultDomainName(fqdn)]

\* the flush callbacks NewKeys can be given with WithFlushFunc: the one of
\* application.New, which calls store.SaveKeys(keys) and returns nil whatever
\* SaveKeys returned, and one that returns what SaveKeys returned
FlushFuncs == {"application", "checked"}

\* what fetchDomainKey returns for a probe that succeeds at instant t: the
\* hash of the public key of the certificate served, and Expire, the seconds
\* from t to the certificate's NotAfter. The target replaces its certificate
\* at RotateAt
PinAt(t) ==
    LET cert == IF t < RotateAt
                THEN [Key |-> <<"K", "1">>, NotAfter |-> 25]
                ELSE [Key |-> <<"K", "2">>, NotAfter |-> 45]
    IN  [Key |-> cert.Key, Expire |-> cert.NotAfter - t]

\* what fetchDomainKey returns at instant t for the target of file: the pin
\* of the certificate served, or an error
FetchResults(file, t) ==
    { [err |-> FALSE, pin |-> PinAt(t)] } \cup
    (IF LoadOrStoreValue(file) < MaxFailures
     THEN { [err |-> TRUE, pin |-> [Key |-> <<>>, Expire |-> 0]] } ELSE {})

\* the first tick of the flush ticker under the shortest dump interval
FirstFlush == CHOOSE d \in DumpIntervals : \A e \in DumpIntervals : d <= e

\* the seconds explored in the present run: with two targets up to the first
\* tick of the flush ticker under the shortest dump interval; with one,
\* MaxClock while no probe has failed, no tick and no callback has taken a
\* second or more, nothing was cancelled, the dump interval is the long one
\* and the callback is that of application.New, and MaxEventful otherwise
Horizon ==
    IF Cardinality(workers) > 1 THEN FirstFlush
    ELSE IF eng.done = {} /\ LoadOrStoreValue(TargetFile) = 0 /\ eng.interval > 1
            /\ ~eng.slow /\ eng.flushFunc = "application"
    THEN MaxClock
    ELSE MaxEventful

\* the body of the worker's tick after val.Date = &cur
Probed(val, out) == IF out.err THEN ProbeFailed(val) ELSE ProbeOk(val, out.pin)

\* Collect, the second Range: one ssl_pinning_expire series for every entry
\* of c.expires, with labels key and fqdn
ExpireSeries ==
    { [key |-> i[1], fqdn |-> i[2], value |-> expires[i]] : i \in DOMAIN expires }

\* the cases of the worker's select that can proceed when the worker of q
\* arrives at it: the ticker's channel holds a tick, the context is done;
\* Go chooses among those that can proceed, and blocks when none can
SelectCases(q) ==
    (IF q \in eng.chan THEN {"tick"} ELSE {}) \cup
    (IF q \in eng.done THEN {"done"} ELSE {}) \cup
    (IF q \notin eng.chan /\ q \notin eng.done THEN {"block"} ELSE {})

\* the worker of q after its select took the ticker's case at instant t:
\* cur := time.Now(); val, _ := k.Get(key.Fqdn); val.Date = &cur
BeginTick(w, rec, t) ==
    [w EXCEPT !.pc = "fetch", !.val = [rec EXCEPT !.Date = <<t>>],
              !.read = [rec EXCEPT !.Date = <<t>>]]

\* NewKeys: AddKey for every target stores its record and starts its worker,
\* which clears the error counter of its file and waits in its select
NewKeys ==
    /\ ~eng.started
    /\ \E list \in TargetLists, key \in ConfigKeys :
         /\ store' = [q \in list |-> TargetKey(q, key)]
         /\ workers' = list
         /\ wk' = [q \in list |-> [pc |-> "idle", fqdn |-> q, file |-> TargetFile,
                                   val |-> ZeroKey, read |-> ZeroKey]]
    /\ errors' = StoreError(TargetFile, 0)
    /\ \E f \in FlushFuncs :
         eng' = [eng EXCEPT !.started = TRUE, !.flushFunc = f]
    /\ tick' = NoTick
    /\ UNCHANGED <<muWriter, muReaders, setters, snap, committed, ops>>
    /\ UNCHANGED <<incs, scrapes, tally, expires>>
    /\ UNCHANGED <<storeVars, fsVars, appVars, raceVars>>

\* App.Up: go a.keys.StartPeriodicFlush(), which starts its ticker
StartPeriodicFlush ==
    /\ eng.started
    /\ eng.interval = 0
    /\ \E d \in DumpIntervals :
         eng' = [eng EXCEPT !.interval = d, !.until = d, !.loop = "select"]
    /\ tick' = NoTick
    /\ UNCHANGED expires
    /\ UNCHANGED <<storeVars, fsVars, keysVars, appVars, raceVars, metricVars>>

\* a second passes: every worker's ticker fires, and the flush ticker when
\* its interval has passed. A worker blocked in its select takes the tick;
\* for a worker inside a tick the tick goes to the ticker's channel, which
\* holds one tick: a tick that finds the channel full is dropped, and so is
\* a tick of the flush ticker that finds one waiting while the callback
\* runs. A probe handler is followed within the second it began in
Second ==
    /\ eng.interval > 0
    /\ eng.time < Horizon
    /\ \A q \in workers :
          wk[q].pc \in {"fetch", "set"} => eng.time + 1 - wk[q].val.Date[1] <= MaxProbe
    /\ LET t == eng.time + 1
           live == { q \in workers : wk[q].pc # "exited" }
           blocked == { q \in live : wk[q].pc = "idle" }
       IN  /\ wk' = [q \in DOMAIN wk |->
                       IF q \in blocked THEN BeginTick(wk[q], store[q], t) ELSE wk[q]]
           /\ eng' = [eng EXCEPT
                        !.time = t,
                        !.chan = @ \cup (live \ blocked),
                        !.slow = @ \/ live # blocked \/ eng.loop = "callback",
                        !.until = IF eng.until = 1 THEN eng.interval ELSE @ - 1,
                        !.flushReady = @ \/ eng.until = 1]
    /\ tick' = NoTick
    /\ http' = NoRequest
    /\ call' = KeptCall(call)
    /\ probe' = NoProbe
    /\ UNCHANGED <<backend, memKeys, kv, pg, saves, dump>>
    /\ UNCHANGED <<store, muWriter, muReaders, workers, setters, snap, committed, ops>>
    /\ UNCHANGED expires
    /\ UNCHANGED <<fsVars, appVars, raceVars, metricVars>>

\* a worker's tick, first part: fetchDomainKey returns, val takes the result
\* and the collector is told: SetExpire after a success, IncError after a
\* failure
WorkerProbe ==
    /\ \E q \in workers :
         /\ wk[q].pc = "fetch"
         /\ \E out \in FetchResults(wk[q].file, eng.time) :
              /\ errors' = IF out.err
                           THEN StoreError(wk[q].file, LoadOrStoreValue(wk[q].file) + 1)
                           ELSE errors
              /\ expires' = IF out.err THEN expires
                            ELSE SetExpire(out.pin.Key, q, out.pin.Expire)
              /\ wk' = [wk EXCEPT ![q].pc = "set", ![q].val = Probed(@, out)]
    /\ tick' = NoTick
    /\ http' = NoRequest
    /\ call' = KeptCall(call)
    /\ probe' = Kept(probe)
    /\ UNCHANGED eng
    /\ UNCHANGED <<backend, memKeys, kv, pg, saves, dump>>
    /\ UNCHANGED <<store, muWriter, muReaders, workers, setters, snap, committed, ops>>
    /\ UNCHANGED <<incs, scrapes, tally>>
    /\ UNCHANGED <<fsVars, appVars, raceVars>>

\* a worker's tick, second part: k.Set stores val, and the worker is back at
\* its select
WorkerTick ==
    /\ \E q \in workers :
         /\ wk[q].pc = "set"
         /\ \E next \in SelectCases(q) :
              LET val == wk[q].val
              IN  /\ store' = Put(q, val)
                  /\ wk' = [wk EXCEPT ![q] =
                              IF next = "tick" THEN BeginTick(wk[q], val, eng.time)
                              ELSE [wk[q] EXCEPT !.pc = IF next = "done" THEN "exited"
                                                        ELSE "idle"]]
                  /\ eng' = [eng EXCEPT
                               !.chan = IF next = "tick" THEN @ \ {q} ELSE @,
                               !.late = IF next = "tick" /\ q \in eng.done
                                        THEN @ \cup {q} ELSE @ \ {q}]
                  /\ tick' = [fqdn |-> q, file |-> wk[q].file,
                              res |-> IF val.LastError # <<>> THEN "err" ELSE "ok",
                              read |-> wk[q].read, wrote |-> val,
                              late |-> q \in eng.late]
    /\ http' = NoRequest
    /\ call' = KeptCall(call)
    /\ probe' = Kept(probe)
    /\ UNCHANGED <<backend, memKeys, kv, pg, saves, dump>>
    /\ UNCHANGED <<muWriter, muReaders, workers, setters, snap, committed, ops>>
    /\ UNCHANGED <<errors, incs, scrapes, tally, expires>>
    /\ UNCHANGED <<fsVars, appVars, raceVars>>

\* the context NewKeys was given is cancelled, and with it the context of
\* every worker: a worker blocked in its select takes the case of ctx.Done()
\* and returns. (The tests cancel it; application.New passes a context that
\* nothing cancels, and the cancel functions AddKey keeps are never called.)
Cancel ==
    /\ workers # {}
    /\ eng.done = {}
    /\ eng' = [eng EXCEPT !.done = workers]
    /\ wk' = [q \in DOMAIN wk |->
                [wk[q] EXCEPT !.pc = IF @ = "idle" THEN "exited" ELSE @]]
    /\ tick' = NoTick
    /\ http' = NoRequest
    /\ call' = KeptCall(call)
    /\ probe' = Kept(probe)
    /\ UNCHANGED <<backend, memKeys, kv, pg, saves, dump>>
    /\ UNCHANGED <<store, muWriter, muReaders, workers, setters, snap, committed, ops>>
    /\ UNCHANGED expires
    /\ UNCHANGED <<fsVars, appVars, raceVars, metricVars>>

\* StartPeriodicFlush takes a tick of its ticker: list := k.Snapshot() copies
\* the registry under the read lock and releases it; the callback is called
\* with list next, and the workers go on writing to the registry meanwhile
Flush ==
    /\ eng.flushReady
    /\ eng.loop = "select"
    /\ eng' = [eng EXCEPT !.flushReady = FALSE, !.loop = "callback"]
    /\ call' = [Saving(Snapshot,
                       IF backend \in {"redis", "postgres"} THEN EngineAppID ELSE <<>>,
                       {})
                EXCEPT !.pc = "call"]
    /\ tick' = NoTick
    /\ http' = NoRequest
    /\ probe' = Kept(probe)
    /\ UNCHANGED <<backend, memKeys, kv, pg, saves, dump>>
    /\ UNCHANGED expires
    /\ UNCHANGED <<fsVars, keysVars, appVars, raceVars, metricVars>>

\* k.flushFunc(list): the callback calls store.SaveKeys(list). The memory
\* store replaces its map and returns; the Redis store skips the records
\* without a key and comes to its first HSet, which succeeds or not; the
\* PostgreSQL store runs its transaction, whose statements and commit succeed
\* or not; the filesystem store groups the records by file in its first
\* loop and comes to the second, whose system calls are steps of their own.
\* A call that is over returns to the callback, and the callback to the loop
FlushSaveKeys ==
    /\ eng.loop = "callback"
    /\ call.kind = "saving"
    /\ call.pc = "call"
    /\ LET keys == call.keys
           appID == call.appID
       IN  IF backend = "memory"
           THEN /\ memKeys' = MemSaveKeys(keys)
                /\ call' = Call(keys, appID, FALSE, Valid(keys) # DOMAIN keys)
                /\ UNCHANGED <<kv, pg>>
           ELSE IF backend = "redis"
           THEN /\ IF Valid(keys) = {}
                   THEN /\ call' = Call(keys, appID, FALSE, FALSE)
                        /\ kv' = kv
                   ELSE \E q \in Valid(keys), ok \in IoOutcomes :
                          /\ kv' = IF ok
                                   THEN RedisSaveKeys(kv, [x \in {q} |-> keys[q]], appID, {})
                                   ELSE kv
                          /\ call' = IF Valid(keys) = {q}
                                     THEN Call(keys, appID, ~ok, ~ok)
                                     ELSE [Saving(keys, appID, Valid(keys) \ {q})
                                              EXCEPT !.failed = ~ok]
                /\ UNCHANGED <<memKeys, pg>>
           ELSE IF backend = "postgres"
           THEN /\ \E out \in PgOutcomes(keys) :
                     /\ pg' = PgSaveKeys(pg, keys, appID, out.exec, out.commit)
                     /\ call' = Call(keys, appID,
                                     ~PgCommitted(keys, out.exec, out.commit),
                                     ~PgCommitted(keys, out.exec, out.commit))
                /\ UNCHANGED <<memKeys, kv>>
           ELSE /\ call' = IF FsFiles(keys) = {}
                           THEN Call(keys, appID, FALSE, Valid(keys) # DOMAIN keys)
                           ELSE Saving(keys, appID, FsFiles(keys))
                /\ UNCHANGED <<memKeys, kv, pg>>
    /\ eng' = Returned(call')
    /\ tick' = NoTick
    /\ http' = NoRequest
    /\ probe' = Kept(probe)
    /\ UNCHANGED <<backend, saves, dump>>
    /\ UNCHANGED expires
    /\ UNCHANGED <<fsVars, keysVars, appVars, raceVars, metricVars>>

\* StartPeriodicFlush at its select takes the case of k.ctx.Done() and
\* returns; when a tick waits as well, Go chooses between the two
FlushStop ==
    /\ eng.loop = "select"
    /\ eng.done # {}
    /\ eng' = [eng EXCEPT !.loop = "exited"]
    /\ tick' = NoTick
    /\ http' = NoRequest
    /\ call' = KeptCall(call)
    /\ probe' = Kept(probe)
    /\ UNCHANGED <<backend, memKeys, kv, pg, saves, dump>>
    /\ UNCHANGED expires
    /\ UNCHANGED <<fsVars, keysVars, appVars, raceVars, metricVars>>

\* the engine while its context is not cancelled
EngineRun ==
    \/ NewKeys
    \/ StartPeriodicFlush
    \/ Second
    \/ WorkerProbe
    \/ WorkerTick
    \/ Flush
    \/ FlushSaveKeys
    \/ SaveKeysRedisHSet
    \/ SaveKeysFilesystemFile
    \/ SaveFileTempWrite
    \/ SaveFileTempRename

EngineNext ==
    \/ NewKeys
    \/ StartPeriodicFlush
    \/ Second
    \/ WorkerProbe
    \/ WorkerTick
    \/ Cancel
    \/ Flush
    \/ FlushSaveKeys
    \/ SaveKeysRedisHSet
    \/ SaveKeysFilesystemFile
    \/ SaveFileTempWrite
    \/ SaveFileTempRename
    \/ FlushStop
    \/ ProbeLiveness
    \/ ProbeLivenessRead

\* the engine without the health probes, which read the store and write
\* nothing that the workers and the flush read
EngineCore ==
    \/ NewKeys
    \/ StartPeriodicFlush
    \/ Second
    \/ WorkerProbe
    \/ WorkerTick
    \/ Cancel
    \/ Flush
    \/ FlushSaveKeys
    \/ SaveKeysRedisHSet
    \/ SaveKeysFilesystemFile
    \/ SaveFileTempWrite
    \/ SaveFileTempRename
    \/ FlushStop

----------------------------------------------------------------------------
(* Specifications *)

\* the state after application.New: storage.type is one of types, the store is
\* empty, DumpDir is empty, the registry is empty (NewKeys has made the maps and
\* not yet called AddKey), both servers serve and no signal has arrived
InitWith(types) ==
    /\ backend \in types
    /\ memKeys = <<>>
    /\ kv = <<>>
    /\ pg = {}
    /\ saves = 0
    /\ http = NoRequest
    /\ dump = <<>>
    /\ call = NoCall
    /\ probe = NoProbe
    /\ dir = <<>>
    /\ inodes = <<>>
    /\ writers = <<>>
    /\ readers = <<>>
    /\ fsWrites = 0
    /\ scans = <<>>
    /\ store = <<>>
    /\ muWriter = {}
    /\ muReaders = {}
    /\ workers = {}
    /\ wk = <<>>
    /\ setters = <<>>
    /\ snap = <<>>
    /\ committed = <<>>
    /\ ops = [add |-> 0, tick |-> 0, set |-> 0, snap |-> 0,
              spawn |-> [q \in Fqdns |-> 0]]
    /\ mainPc = "up"
    /\ srv = [s \in Servers |-> [state |-> "serving", busy |-> FALSE, waited |-> 0]]
    /\ ctxDone = FALSE
    /\ closeCalls = 0
    /\ exitCode = -1
    /\ activity = [probes |-> 0, flushes |-> 0, afterDown |-> 0, afterClose |-> 0]
    /\ clock = 0
    /\ memSave = [n |-> 0, pc |-> "idle", old |-> <<>>, new |-> <<>>, ptr |-> TRUE,
                  ents |-> {}]
    /\ memRead = <<>>
    /\ errors = <<>>
    /\ incs = [w \in ProbeWorkers |-> [pc |-> "idle", file |-> <<>>, val |-> 0]]
    /\ scrapes = <<>>
    /\ tally = [started |-> 0, calls |-> [f \in Files |-> 0],
                emitted |-> [f \in Files |-> 0]]
    /\ eng = [started |-> FALSE, time |-> 0, interval |-> 0, until |-> 0,
              flushReady |-> FALSE, flushed |-> FALSE, chan |-> {}, done |-> {},
              late |-> {}, loop |-> "none", failed |-> FALSE,
              flushFunc |-> "none", slow |-> FALSE]
    /\ expires = <<>>
    /\ tick = NoTick

\* the pin stores and the API handler, for each storage.type
SpecStore == InitWith(Backends) /\ [][StoreNext]_vars

\* the filesystem store's system calls
SpecFS ==
    InitWith({"filesystem"}) /\ [][FsNext]_vars

\* the filesystem store's system calls under the health probes
SpecScan ==
    InitWith({"filesystem"}) /\ [][ScanNext]_vars

\* the pin registry
SpecKeys ==
    InitWith({"memory"}) /\ [][KeysNext]_vars

\* startup and shutdown
SpecApp ==
    InitWith({"memory"}) /\ [][AppNext]_vars

\* the memory store while SaveKeys runs against a reader
SpecMem ==
    InitWith({"memory"}) /\ [][MemNext]_vars

\* the metrics collector under probe workers and scrapes
SpecMetrics ==
    InitWith({"memory"}) /\ [][MetricsNext]_vars

\* the workers, the periodic flush and the store in time
SpecEngine ==
    InitWith(Backends) /\ [][EngineNext]_vars

\* the workers and the periodic flush in time
SpecEngineCore ==
    InitWith(Backends) /\ [][EngineCore]_vars

\* the same, where time passes and the goroutines of the workers and of the
\* flush are scheduled
SpecEngineFair ==
    /\ InitWith(Backends)
    /\ [][EngineRun]_vars
    /\ WF_eng(Second)
    /\ WF_wk(WorkerProbe)
    /\ WF_wk(WorkerTick)
    /\ WF_eng(Flush)
    /\ WF_call(FlushSaveKeys)
    /\ WF_call(SaveKeysRedisHSet)
    /\ WF_call(SaveKeysFilesystemFile)
    /\ WF_call(SaveFileTempWrite)
    /\ WF_call(SaveFileTempRename)


----------------------------------------------------------------------------
(* Properties of the pin stores and the API handler *)

\* the request answered last got its records from a GetByFile that succeeded
Answered == http.status # 0 /\ http.file # <<>> /\ ~http.err

\* C1: when GetByFile returned exactly one record and no raw bytes, the
\* handler answers 200 with Content-Type application/json and the signed
\* manifest of that record
C1_SingleRecordIsServed ==
    (Answered /\ Len(http.keys) = 1 /\ http.data = <<>>)
        => /\ http.status = 200
           /\ http.ctype = "application/json"
           /\ http.body = Manifest(http.keys)

\* C2: whatever SaveKeys calls were made, every record GetByFile returns, for
\* any file, has a non-empty key: those it would return now, and those it
\* has returned to the request answered last, also when a SaveKeys call was
\* at work between its reads
C2_ReturnedKeysNonEmpty ==
    /\ \A f \in Files : \A got \in GetByFileResults(f) :
          \A i \in 1..Len(got.keys) : got.keys[i].Key # <<>>
    /\ \A i \in 1..Len(http.keys) : http.keys[i].Key # <<>>

\* a batch with an empty-key record was saved for a file, and a GetByFile of
\* that file has returned records to the handler
C2_Witness ==
    /\ backend = "postgres"
    /\ Answered
    /\ Len(http.keys) >= 1
    /\ \E r \in pg : r.Key = <<>> /\ r.File = http.file

\* the expire of every record the store holds for (file, fqdn), by the
\* process that saved it
HeldExpires(file, fqdn) ==
    CASE backend = "redis" ->
            { <<n, ParseInt(kv[n].expire)>> :
                n \in { m \in DOMAIN kv : kv[m].file = file /\ kv[m].fqdn = fqdn } }
      [] backend = "postgres" ->
            { <<r.AppID, r.Expire>> : r \in { x \in pg : x.File = file /\ x.Fqdn = fqdn } }
      [] OTHER -> {}

\* C3: when the KV or SQL store holds several records with the same file and
\* fqdn, GetByFile returns exactly one record for that fqdn and its expire is
\* the minimum expire among them
C3_OnePerFqdnWithMinimumExpire ==
    \A f \in Files, q \in Fqdns :
        LET held == HeldExpires(f, q)
        IN  Cardinality(held) >= 2 =>
              \A got \in GetByFileResults(f) :
                ~got.err =>
                  /\ Cardinality({ i \in 1..Len(got.keys) : got.keys[i].Fqdn = q }) = 1
                  /\ \A i \in 1..Len(got.keys) :
                        got.keys[i].Fqdn = q =>
                          \A h \in held : got.keys[i].Expire <= h[2]


----------------------------------------------------------------------------
(* Properties of the filesystem store *)

\* saveFile call w renamed its temporary file over the destination of file
Renamed(w, file) ==
    /\ writers[w].file = file
    /\ writers[w].pc \in {"remove", "done"}
    /\ ~writers[w].err

\* C4: whatever the interleaving of saveFile and GetByFile, DumpDir/file does
\* not exist or holds the complete bytes of one write that has finished, and
\* the bytes a GetByFile returns are the complete bytes of one write
C4_DestinationIsComplete ==
    /\ \A f \in Files :
          DestName(f) \in DOMAIN dir =>
            \E w \in DOMAIN writers :
                Renamed(w, f) /\ inodes[dir[DestName(f)]] = Data(w)
    /\ \A r \in DOMAIN readers :
          (readers[r].pc = "done" /\ ~readers[r].err) =>
            \E w \in DOMAIN writers :
                writers[w].file = readers[r].file /\ readers[r].buf = Data(w)

\* a GetByFile has returned the bytes of a file while a later saveFile of the
\* same file has written half of its bytes
C4_Witness ==
    \E r \in DOMAIN readers : \E w \in DOMAIN writers :
        /\ readers[r].pc = "done"
        /\ ~readers[r].err
        /\ readers[r].buf # Data(w)
        /\ writers[w].file = readers[r].file
        /\ writers[w].pc = "write"
        /\ Len(inodes[w]) = 1


----------------------------------------------------------------------------
(* Properties of startup and shutdown *)

\* C5: once App.Down has run, the engine's context is cancelled and no probe,
\* registry write or flush callback starts afterwards
C5_EngineStopsAfterDown ==
    mainPc = "returned" => (ctxDone /\ activity.afterDown = 0)

\* C6: once the shutdown signal has been handled, PinStore.Close() has been
\* called exactly once, also when a server's shutdown ended with an error
C6_CloseExactlyOnce ==
    mainPc \in {"returned", "exited"} => closeCalls = 1

\* C7: a server's graceful shutdown is bounded by the deadline: Server.Down
\* is not still waiting for a connection after the timeout
C7_ShutdownBounded ==
    \A s \in Servers :
        (srv[s].state = "shutdown" /\ mainPc \in {"metricsDown", "httpDown"}
            /\ DownOf(mainPc) = s)
          => srv[s].waited <= ShutdownTimeout


----------------------------------------------------------------------------
(* Properties of the pin registry *)

\* the registry's records whose Fqdn is fqdn
RecordsOf(fqdn) == { k \in DOMAIN store : store[k].Fqdn = fqdn }

\* the FQDN AddKey has stored a record for and not yet registered a worker for
BeingAdded ==
    IF MainG \in DOMAIN setters /\ setters[MainG].pc = "spawn"
    THEN {setters[MainG].key} ELSE {}

\* C8: in every reachable state the registry holds exactly one record for
\* each configured FQDN and none for anything else: no tick, successful or
\* failed, adds a second entry or removes the entry
C8_OneRecordPerFqdn ==
    /\ \A q \in workers \cup BeingAdded : Cardinality(RecordsOf(q)) = 1
    /\ \A k \in DOMAIN store : k \in workers \cup BeingAdded /\ store[k].Fqdn = k

\* AddKey ran twice, a successful and then a failed probe of an FQDN have been
\* written back and a snapshot has been taken
C8_Witness ==
    /\ ops.add = 2
    /\ ops.tick = 2
    /\ \E g \in DOMAIN snap : snap[g].pc = "done"
    /\ \E q \in workers :
          /\ wk[q].pc = "idle"
          /\ store[q].Key # <<>>
          /\ store[q].LastError # <<>>

\* C9: the record the registry holds for an fqdn is, field for field, the
\* value of one Set that has stored it, however many writers call Set for
\* that fqdn at once
C9_NoTornRecord ==
    \A q \in DOMAIN store : store[q] \in committed[q]

\* two callers of Set have written different values for the same fqdn and
\* both have returned
C9_Witness ==
    \E g, h \in DOMAIN setters :
        /\ g # h
        /\ setters[g].kind = "set" /\ setters[h].kind = "set"
        /\ setters[g].pc = "done" /\ setters[h].pc = "done"
        /\ setters[g].key = setters[h].key
        /\ setters[g].v # setters[h].v

\* a returned snapshot keeps the map it returned
SnapshotKept ==
    \A g \in DOMAIN snap : snap[g].pc = "done" => snap'[g] = snap[g]

\* C10: every record of a snapshot is a value some Set or AddKey has stored
\* completely, also when writers run during the snapshot, and the returned
\* map is not changed by the registry writes that follow
C10_SnapshotIsConsistent ==
    /\ [](\A g \in DOMAIN snap : \A q \in DOMAIN snap[g].out :
            snap[g].out[q] \in committed[q])
    /\ [][SnapshotKept]_vars

\* a snapshot has returned a probed record and the registry has since been
\* given another value for that fqdn
C10_Witness ==
    \E g \in DOMAIN snap :
        /\ snap[g].pc = "done"
        /\ \E q \in DOMAIN snap[g].out :
              /\ snap[g].out[q].Key # <<>>
              /\ store[q] # snap[g].out[q]


----------------------------------------------------------------------------
(* Properties of the manifests *)

\* the records of a sequence come in non-decreasing order of Expire
NonDecreasing(keys) ==
    \A i, j \in 1..Len(keys) : i < j => keys[i].Expire <= keys[j].Expire

\* C11: the manifest SignedKeys builds lists its keys in non-decreasing order
\* of expire, whatever the order of the records it was given
C11_ManifestSortedByExpire ==
    (http.status = 200 /\ http.body.kind = "manifest") => NonDecreasing(http.body.keys)

\* a manifest has been served for records GetByFile handed out with the
\* later expire first
C11_Witness ==
    /\ http.status = 200
    /\ http.body.kind = "manifest"
    /\ Len(http.keys) = 2
    /\ http.keys[1].Expire > http.keys[2].Expire


\* a verifier takes payload out of the manifest, canonicalizes it and checks
\* the signature against it
Verifies(body) == body.signature = Sign(body.payload[1])

\* C12: the signature of a manifest is the signature of the canonical form
\* of its payload alone: canonicalizing the payload of the manifest again and
\* verifying the signature against it succeeds
C12_SignatureOverCanonicalPayload ==
    (http.status = 200 /\ http.body.kind = "manifest") => Verifies(http.body)

\* a manifest of two records has been served
C12_Witness ==
    /\ http.status = 200
    /\ http.body.kind = "manifest"
    /\ Len(http.body.payload[1].keys) = 2
    /\ http.body.payload[1].layout = "indent1"

----------------------------------------------------------------------------
(* Properties of SaveKeys *)

\* whether the configured backend holds record k as a process with app id
\* appID saves it
Held(k, appID) ==
    CASE backend = "memory" ->
            k.Fqdn \in DOMAIN memKeys /\ memKeys[k.Fqdn] = k
      [] backend = "redis" ->
            /\ RedisHashName(k, appID) \in DOMAIN kv
            /\ kv[RedisHashName(k, appID)] = RedisFields(k)
      [] backend = "postgres" -> [k EXCEPT !.AppID = appID] \in pg
      [] backend = "filesystem" ->
            /\ k.File \in DOMAIN dump
            /\ [k EXCEPT !.File = <<>>] \in Range(UnmarshalKeys(dump[k.File].body))

\* C13: in every backend, when SaveKeys has returned and the backend itself
\* has not failed, every record of the map that has a non-empty key is
\* stored, whether or not the map also held records with an empty key
C13_BadRecordDoesNotAbortBatch ==
    (call.kind = "save" /\ ~call.failed) =>
        \A k \in Range(call.keys) : k.Key # <<>> => Held(k, call.appID)

\* SaveKeys has reported the record with an empty key of a map and stored
\* the record with a non-empty key of the same map
C13_Witness ==
    /\ call.kind = "save"
    /\ ~call.failed
    /\ call.err
    /\ \E k \in Range(call.keys) : k.Key = <<>>
    /\ \E k \in Range(call.keys) : k.Key # <<>> /\ Held(k, call.appID)

\* C14: after a SaveKeys call, no backend holds a record with an empty key
\* that the map of that call contained
C14_NoEmptyKeyStored ==
    call.kind = "save" =>
        \A k \in Range(call.keys) : k.Key = <<>> => ~Held(k, call.appID)

\* the rows of the map of the SaveKeys call that has just returned
CallRows(c) == { [k EXCEPT !.AppID = c.appID] : k \in Range(c.keys) }

\* C15: a PostgreSQL SaveKeys call that returns an error leaves the table
\* as it was, whichever of its statements had succeeded; a call that returns
\* no error leaves every row of its map in the table
C15_TransactionAllOrNothing ==
    [][(backend = "postgres" /\ call'.kind = "save") =>
          IF call'.err THEN pg' = pg ELSE CallRows(call') \subseteq pg']_vars

\* a PostgreSQL SaveKeys call given two records has failed and the table
\* holds neither
C15_Witness ==
    /\ backend = "postgres"
    /\ call.kind = "save"
    /\ call.err
    /\ Cardinality(DOMAIN call.keys) = 2
    /\ CallRows(call) \cap pg = {}

----------------------------------------------------------------------------
(* Properties of the health probes *)

\* a fresh record: non-empty key, non-null date, less than 10 s old
Fresh(k, now) == k.Key # <<>> /\ k.Date # <<>> /\ now - k.Date[1] < MaxAge

\* C17: the liveness probe of the memory store answers 200 exactly when the
\* store holds at least one fresh record, else 503
C17_MemoryLivenessIffFreshRecord ==
    (probe.kind = "liveness" /\ probe.pc = "done" /\ backend = "memory") =>
        (probe.status = 200 <=> \E k \in Range(memKeys) : Fresh(k, probe.now))

\* C18: the readiness probe of the filesystem store, when DumpDir can be
\* read, answers 200 exactly when DumpDir holds at least one manifest, else 503
C18_FilesystemReadyIffManifestExists ==
    (probe.kind = "readiness" /\ probe.pc = "done" /\ backend = "filesystem"
        /\ probe.ok) =>
        (probe.status = 200 <=> \E n \in DOMAIN dump : IsManifest(n))

\* C19: in every backend a liveness probe answers 200 only if it has read
\* from the store a record with a non-empty key dated less than 10 s ago,
\* and every record it counts as fresh is one: records with an empty key,
\* however recent, do not make the store alive
C19_EmptyKeyNeverFresh ==
    (probe.kind = "liveness" /\ probe.pc = "done" /\ probe.status = 200) =>
        /\ probe.counted # {}
        /\ \A k \in probe.counted : Fresh(k, probe.now)

\* the PostgreSQL table holds, for the probing process, a recently dated
\* row with an empty key and no fresh row, and the probe has answered 503
C19_Witness ==
    /\ probe.kind = "liveness"
    /\ probe.pc = "done"
    /\ backend = "postgres"
    /\ probe.ok
    /\ probe.status = 503
    /\ \E r \in pg : /\ r.AppID = probe.appID
                     /\ r.Key = <<>>
                     /\ r.Date # <<>>
                     /\ probe.now - r.Date[1] < MaxAge
    /\ ~\E k \in pg : Fresh(k, probe.now)

----------------------------------------------------------------------------
(* Properties of the memory store under concurrency *)

\* C16: a GetByFile that runs while SaveKeys replaces the map observes the
\* complete previous map or the complete new map, never a map filled in part
C16_ReaderSeesWholeMap ==
    \A i \in DOMAIN memRead : memRead[i].view \in {memRead[i].old, memRead[i].new}

----------------------------------------------------------------------------
(* Properties of the metrics collector *)

\* no IncError and no Collect is in progress
Quiet ==
    /\ \A w \in ProbeWorkers : incs[w].pc = "idle"
    /\ \A s \in DOMAIN scrapes : scrapes[s].pc = "done"

\* C20: every probe failure of a file is reported in exactly one scrape:
\* once the calls in progress have returned, the values emitted for the file
\* so far and the count not yet emitted add up to the number of IncError
\* calls made for it, none lost and none reported twice
C20_EveryFailureReportedOnce ==
    Quiet => \A f \in Files :
                tally.emitted[f] + LoadOrStoreValue(f) = tally.calls[f]

----------------------------------------------------------------------------
(* Properties of the API handler's error answers *)

\* C21: when GetByFile returned no record and no raw bytes without error, as
\* it does for every file on a memory store that never received a record, the
\* handler answers 404 and its body is the line "file {file} not found"
C21_NothingFoundIs404 ==
    (Answered /\ http.keys = <<>> /\ http.data = <<>>)
        => /\ http.status = 404
           /\ http.body = TextBody(FileNotFound(http.file) \o <<"\n">>)

\* a request for a file was answered from a memory store that holds nothing
C21_Witness ==
    /\ backend = "memory"
    /\ memKeys = <<>>
    /\ Answered
    /\ http.keys = <<>>
    /\ http.status = 404

\* C22: with the filesystem backend, a request for a file that is not in
\* DumpDir is answered with 404 and the line "file {file} not found"
C22_MissingFileIs404 ==
    (backend = "filesystem" /\ http.status # 0 /\ http.file # <<>>
        /\ http.file \notin DOMAIN dump)
        => /\ http.status = 404
           /\ http.body = TextBody(FileNotFound(http.file) \o <<"\n">>)

\* the records a process with app id appID has saved for file, as GetByFile
\* hands records out
SavedUnder(appID, file) ==
    CASE backend = "redis" ->
            { RedisRecord(kv[n]) :
                n \in { x \in DOMAIN kv :
                          /\ kv[x].file = file
                          /\ x = file \o <<":">> \o kv[x].fqdn \o <<":">> \o appID } }
      [] backend = "postgres" ->
            { PgScan(r) : r \in { x \in pg : x.AppID = appID /\ x.File = file } }
      [] OTHER -> {}

\* C23: in the Redis and PostgreSQL backends, whatever GetByFile(file)
\* returns to the process with app id appID is a record saved under that app
\* id: no row of another process appears in its manifest
C23_GetByFileScopedByAppID ==
    backend \in {"redis", "postgres"} =>
        \A appID \in AppIDs, file \in Files :
            \A got \in GetByFileResults(file) :
                \A i \in 1..Len(got.keys) : got.keys[i] \in SavedUnder(appID, file)

----------------------------------------------------------------------------
(* Properties of the shutdown towards the store *)

\* C29: once PinStore.Close() has been called, the flush callback issues no
\* SaveKeys call: the periodic flush has stopped before the store is closed
C29_NoSaveAfterClose == activity.afterClose = 0

----------------------------------------------------------------------------
(* Properties of the registry's writers *)

\* the worker of q is between the k.Get that began its tick and the k.Set
\* that ends it
InTick(q) == wk[q].pc \in {"fetch", "lock", "store"}

\* C25: the registry entry of an FQDN is written only by that FQDN's worker
\* once the worker exists: while the worker is between its read and its
\* write, no other writer stores a value under the FQDN, so the worker's
\* write-back overwrites nothing but what it had read
C25_NoLostUpdate ==
    [][\A q \in DOMAIN wk :
          (InTick(q) /\ wk[q].fqdn \in DOMAIN store)
            => \/ store'[wk[q].fqdn] = store[wk[q].fqdn]
               \/ wk[q].pc = "store" /\ wk'[q].pc = "idle"]_vars

----------------------------------------------------------------------------
(* Properties of the workers and of the periodic flush *)

\* a probe of q has succeeded: the worker has reported its pin to the
\* collector
Succeeded(q) == \E i \in DOMAIN expires : i[2] = q

\* the pins a probe can observe
ObservedPins == { PinAt(t).Key : t \in 0..MaxClock }

\* the worker of q has just stored the pin k that its probe observed
PinStored(q, k) == tick.res = "ok" /\ tick.fqdn = q /\ tick.wrote.Key = k

\* the flush has taken a tick and its snapshot, and the callback has not
\* called SaveKeys yet
FlushTaken == call.kind = "saving" /\ call.pc = "call"

\* the snapshot of that tick holds the pin k for q
Snapshotted(q, k) ==
    FlushTaken /\ q \in DOMAIN call.keys /\ call.keys[q].Key = k

\* SaveKeys has returned to the callback after a write to the backend failed
BackendFailed == call.kind = "save" /\ call.failed

\* GetByFile of the targets' file can return the pin k for q: in a record, or
\* in the manifest bytes of the filesystem store
Retrievable(q, k) ==
    \E got \in GetByFileResults(TargetFile) :
       /\ ~got.err
       /\ \/ \E i \in 1..Len(got.keys) :
                got.keys[i].Fqdn = q /\ got.keys[i].Key = k
          \/ /\ got.data # <<>>
             /\ \E r \in Range(UnmarshalKeys(got.data[1])) :
                   r.Fqdn = q /\ r.Key = k

C26_FailedProbeKeepsPin ==
    tick.res = "err" =>
        /\ tick.wrote.Key = tick.read.Key
        /\ tick.wrote.Expire = tick.read.Expire
        /\ tick.wrote.LastError # <<>>
        /\ store[tick.fqdn] = tick.wrote

\* a probe has failed after a pin had been observed, and the pin is kept
C26_Witness ==
    /\ tick.res = "err"
    /\ tick.read.Key # <<>>
    /\ store[tick.fqdn].Key = tick.read.Key
    /\ store[tick.fqdn].LastError # <<>>

\* C27: when a tick whose probe succeeded has ended, the error counter of
\* the worker's file is zero
C27_SuccessClearsErrorCounter ==
    tick.res = "ok" => LoadOrStoreValue(tick.file) = 0

\* C28: a worker whose context is cancelled starts no further tick: no tick
\* in progress, and no tick that has ended, was begun after the cancellation
C28_NoTickAfterCancel == eng.late = {} /\ ~tick.late

\* C30: with the memory backend, while every probe has succeeded and no
\* worker was stopped, every liveness probe answered after the first flush
\* answers 200, whatever the dump interval
C30_MemoryAliveFromFirstFlush ==
    (backend = "memory" /\ probe.kind = "liveness" /\ probe.pc = "done"
        /\ eng.flushed /\ eng.done = {} /\ LoadOrStoreValue(TargetFile) = 0)
        => probe.status = 200

----------------------------------------------------------------------------
(* The KV store and glob patterns *)

\* the hashes of the KV store saved with file field file that hold record k
SavedWithFile(k, file) ==
    { n \in DOMAIN kv : /\ kv[n].file = file
                         /\ kv[n].fqdn = k.Fqdn
                         /\ kv[n].key = k.Key
                         /\ ParseInt(kv[n].expire) = k.Expire }

\* C31: every record the KV store's GetByFile(file) returns was saved with a
\* file field equal to file, whatever characters file holds (glob characters included)
C31_RedisReturnsOnlyRequestedFile ==
    (backend = "redis" /\ http.status # 0 /\ ~http.err) =>
        \A i \in 1..Len(http.keys) : SavedWithFile(http.keys[i], http.file) # {}

----------------------------------------------------------------------------
(* Repeated requests *)

\* the answers GET /api/v1/{file} can give in the current state of the
\* backend when neither the backend nor the signer fails
Answers(file) ==
    { HandleFile(file, got, TRUE) : got \in { g \in GetByFileResults(file) : ~g.err } }

\* C33: while the backend state stays the same, every GET /api/v1/{file}
\* returns the same bytes: a request answered with 200 has the body of every
\* other answer the same state can give, records of equal expire included
C33_RepeatedRequestsSameBody ==
    http.status = 200 => \A r \in Answers(http.file) : r.body = http.body

----------------------------------------------------------------------------
(* The filesystem store: temporary files *)

\* C38: once saveFile has returned, with or without an error of Write,
\* Sync, Close or Rename, the temporary file it created is not in DumpDir
C38_TempFileGoneAfterSaveFile ==
    \A w \in DOMAIN writers :
        writers[w].pc = "done" => writers[w].tmp \notin DOMAIN dir

\* a saveFile that created its temporary file and failed later has returned,
\* and another that renamed its own has returned too
C38_Witness ==
    /\ \E w \in DOMAIN writers :
          writers[w].pc = "done" /\ writers[w].err /\ writers[w].tmp # <<>>
    /\ \E w \in DOMAIN writers :
          /\ writers[w].pc = "done" /\ ~writers[w].err
          /\ DestName(writers[w].file) \in DOMAIN dir

\* C32: a probe of the filesystem store answered while saveFile is at work
\* reports no error for a temporary file: every error it reports is about
\* the directory as a whole or about a manifest
C32_TempFileNeverFailsProbe ==
    \A i \in DOMAIN scans :
        scans[i].pc = "done" =>
            \A e \in scans[i].errs : e[2] = <<>> \/ IsManifest(e[2])

----------------------------------------------------------------------------
(* The workers of the registry *)

\* C34: whatever AddKey calls have been made, repeated ones for the same
\* FQDN included, no FQDN has had more than one worker goroutine started,
\* and the FQDNs with a worker are those registered in k.workers
C34_OneWorkerPerFqdn ==
    \A q \in Fqdns :
        /\ ops.spawn[q] <= 1
        /\ (ops.spawn[q] = 1) <=> (q \in workers)

\* AddKey has returned twice for the same FQDN
C34_Witness ==
    /\ ops.add = 2
    /\ Cardinality(workers) = 1
    /\ setters[MainG].pc = "done"

----------------------------------------------------------------------------
(* The key of a registry record *)

\* C39: the key of a registry record is empty exactly while no probe of its
\* FQDN has succeeded, and a key that is not empty stays so; a worker that
\* has the result of a probe is given the time to store it
C39_KeyEmptyIffNeverProbed ==
    /\ [](\A q \in DOMAIN store :
            wk[q].pc # "set" => ((store[q].Key = <<>>) <=> ~Succeeded(q)))
    /\ [][\A q \in DOMAIN store :
             store[q].Key # <<>> => store'[q].Key # <<>>]_vars

----------------------------------------------------------------------------
(* The expiry series of the collector *)

\* the key last observed for q: the one its worker has just got from a
\* probe and is about to store, else the one the registry holds
LastObserved(q) == IF wk[q].pc = "set" THEN wk[q].val.Key ELSE store[q].Key

\* C37: a scrape gets at most one ssl_pinning_expire series for an FQDN,
\* and its key label is the key last observed for the FQDN; the series of a
\* replaced key is gone
C37_OneExpireSeriesPerFqdn ==
    \A s \in ExpireSeries :
        /\ s.fqdn \in DOMAIN store /\ s.key = LastObserved(s.fqdn)
        /\ \A r \in ExpireSeries : r.fqdn = s.fqdn => r = s

----------------------------------------------------------------------------
(* The flush against the workers *)

\* C36: while the flush callback runs with the snapshot it was given, however
\* long, the flush goroutine holds the registry lock in neither mode, so a
\* worker that wants the lock for its write is not kept waiting by the flush
C36_FlushHoldsNoLock ==
    \A g \in DOMAIN snap :
        snap[g].pc = "done" => g \notin muReaders /\ g \notin muWriter

\* a worker has taken the write lock for its record while a flush callback
\* runs with a snapshot
C36_Witness ==
    /\ \E g \in DOMAIN snap : snap[g].pc = "done" /\ snap[g].out # <<>>
    /\ \E q \in DOMAIN wk : wk[q].pc = "store" /\ WorkerG(q) \in muWriter

----------------------------------------------------------------------------
(* The periodic flush after an error *)

\* C35: an error of the flush callback does not end the periodic flush: once
\* a callback has returned an error the loop has not returned, it is at its
\* select or in a later callback, and it returns only when the context is
\* cancelled; a callback is called only for a tick of the flush ticker, with
\* the registry as Snapshot copied it at that tick, never for an error and
\* never with the snapshot of an earlier tick; and SaveKeys works on that
\* snapshot to its return, whatever the workers store meanwhile
C35_FlushSurvivesCallbackError ==
    /\ []((eng.failed /\ eng.done = {}) => eng.loop \in {"select", "callback"})
    /\ [][(call'.kind = "saving" /\ call.kind # "saving")
            => /\ eng.flushReady /\ ~eng'.flushReady
               /\ call'.keys = Snapshot]_vars
    /\ [][(call.kind = "saving" /\ call'.kind # "none")
            => call'.keys = call.keys]_vars

\* after a callback that returned an error, the next tick has taken a
\* snapshot that holds a pin, a worker has stored another record since, and
\* the callback is about to be called with the snapshot
C35_Witness ==
    /\ eng.failed
    /\ eng.done = {}
    /\ FlushTaken
    /\ Valid(call.keys) # {}
    /\ call.keys # Snapshot

====
